---- MODULE Spec2Model ----
(***************************************************************************)
(* Claude Log Navigator: the log file parser (logFileParser.ts), the tree  *)
(* provider with its tree item caches (logTreeProvider.ts), the cost       *)
(* calculator and the extension's event handlers, as a state machine.      *)
(*                                                                         *)
(* Times are integers (one unit is an hour).            A timestamp of an *)
(* entry is NoTs when the field is absent or empty, BadTs when the string  *)
(* does not parse as a date (new Date(..).getTime() is NaN), and a         *)
(* positive integer otherwise.  Absent strings (sessionId, uuid, model,    *)
(* service_tier) are the empty string, which JavaScript treats as falsy    *)
(* exactly like undefined.  Costs are exact multiples of 1/(2*10^8) dollar *)
(* so that the price table and the batch multiplier stay integers.         *)
(*                                                                         *)
(* The async methods are modelled at the level of the language: a call     *)
(* runs to its next await, where it is suspended, and any other handler    *)
(* (a command, an event, a call of the tree data provider) or any other    *)
(* suspended call may run before it resumes.                               *)
(***************************************************************************)
EXTENDS Integers, Sequences, FiniteSets, TLC

VARIABLES
  dir,            \* the log directory: a sequence of files in readdir order
  dirStatus,      \* what the file system answers for the log directory:
                  \* "ok", "ENOENT" (existsSync is false) or "EACCES"
                  \* (readdirSync throws)
  now,            \* the clock read by new Date()
  callResult,     \* result of the last direct call of a parser function
  workspaceHasProject,  \* detectCurrentProject() finds the project directory
  configMaxFiles,       \* the setting claudeLogNavigator.maxFiles
  \* LogTreeProvider
  sessions, logFileParser, dateFilter, initialized, initializing,
  initializationError, treeView, sessionItemCache, messageItemCache,
  tasks,          \* the async calls suspended at an await, oldest first
  opCount,        \* async operations started so far
  nextGen,        \* parseLogFiles calls so far; names the objects of a call
  made,           \* cache key -> number of tree items constructed for it; the
                  \* n-th item of a key is the object <<key, n>>
  issued,         \* every tree item handed out so far
  barrier,        \* cache key -> the largest value made had for it when a
                  \* refresh or filter operation that has completed was started
  \* SearchHistory
  globalState,    \* the array stored under HISTORY_KEY, most recent first
  addQueryCall,   \* the addQuery call suspended at an await, if any
  addQueryCount,  \* addQuery calls so far
  \* showSearchQuickPick
  quickPick,      \* the quick pick: its value, items and whether it is shown
  searchTimeout,  \* the handle in the closure variable searchTimeout
  timers,         \* the pending setTimeout timers
  time,           \* the clock of the timers, in milliseconds
  valueSince,     \* the time of the last input change
  scan,           \* the scan the last step ran, if any
  acceptTask      \* the onDidAccept handler suspended at an await, if any

envVars == <<dir, dirStatus, now>>
hostVars == <<workspaceHasProject, configMaxFiles>>
providerVars == <<sessions, logFileParser, dateFilter, initialized, initializing,
                  initializationError, treeView, sessionItemCache, messageItemCache>>
asyncVars == <<tasks, opCount, nextGen>>
lookupVars == <<made, issued, barrier>>
engineVars == <<hostVars, providerVars, asyncVars, lookupVars>>
historyVars == <<globalState, addQueryCall, addQueryCount>>
pickVars == <<quickPick, searchTimeout, timers, time, valueSince, scan, acceptTask>>
searchVars == <<historyVars, pickVars>>
vars == <<envVars, callResult, engineVars, searchVars>>

----------------------------------------------------------------------------
(* Bounds of the model *)

MaxLines == 2       \* lines per file
MaxFiles == 2       \* files in the directory
MaxParseLines == 3  \* lines of the file in the single-file specification
MaxOps == 2         \* async operations (refresh, filter, lazy load) started
MaxTasks == 2       \* async operations suspended at the same time
MaxHandles == 3     \* tree items constructed
MaxIndex == 1       \* largest index passed to selectMessageByIndex

----------------------------------------------------------------------------
(* models.ts: TranscriptEntry, UsageInfo *)

NoTs == 0
BadTs == 0 - 1
NoCost == 0 - 1

NoUsage == <<>>

UsageInfo(inTok, outTok, ccTok, crTok, tier) ==
  <<[input_tokens |-> inTok, output_tokens |-> outTok,
     cache_creation_input_tokens |-> ccTok, cache_read_input_tokens |-> crTok,
     service_tier |-> tier]>>

\* One line of a .jsonl file.  kind: "blank" (empty after trim), "bad"
\* (JSON.parse throws), "null" (the JSON literal null), "obj" (an object).
\* message.content: a string, an array of content items, or neither
NoContent == [kind |-> "none", text |-> "", items |-> <<>>]
StringContent(text) == [kind |-> "string", text |-> text, items |-> <<>>]
ArrayContent(items) == [kind |-> "array", text |-> "", items |-> items]

\* models.ts ContentItem; text and name are "" when absent, input is <<>>
\* when absent and <<object>> otherwise
ContentItem(type, text, name, input) ==
  [type |-> type, text |-> text, name |-> name, input |-> input]

\* content is message.content; summary is the text of a summary entry and
\* systemContent the top-level content of a system entry, "" when absent
Line(kind, sessionId, uuid, type, timestamp, hasMessage, model, usage) ==
  [kind |-> kind, sessionId |-> sessionId, uuid |-> uuid, type |-> type,
   timestamp |-> timestamp, hasMessage |-> hasMessage, model |-> model,
   usage |-> usage, cost |-> NoCost, oid |-> <<>>,
   content |-> NoContent, summary |-> "", systemContent |-> ""]

BlankLine == Line("blank", "", "", "", NoTs, FALSE, "", NoUsage)
BadLine   == Line("bad", "", "", "", NoTs, FALSE, "", NoUsage)
NullLine  == Line("null", "", "", "", NoTs, FALSE, "", NoUsage)

TranscriptEntry(sessionId, uuid, type, timestamp, hasMessage, model, usage) ==
  Line("obj", sessionId, uuid, type, timestamp, hasMessage, model, usage)

----------------------------------------------------------------------------
(* models.ts: pricing table, in cents per million tokens *)

MODEL_PRICING ==
  [m \in {"claude-opus-4", "claude-3-5-opus-20241022", "claude-3-opus-20240229"} |->
     [inputPrice |-> 1500, outputPrice |-> 7500,
      cacheCreationPrice |-> 1875, cacheReadPrice |-> 150]]
  @@
  [m \in {"claude-sonnet-4", "claude-3-5-sonnet-20241022",
          "claude-3-5-sonnet-20240620", "claude-3-sonnet-20240229"} |->
     [inputPrice |-> 300, outputPrice |-> 1500,
      cacheCreationPrice |-> 375, cacheReadPrice |-> 30]]
  @@
  [m \in {"claude-haiku-3-5", "claude-3-5-haiku-20241022"} |->
     [inputPrice |-> 80, outputPrice |-> 400,
      cacheCreationPrice |-> 100, cacheReadPrice |-> 8]]
  @@
  [m \in {"claude-3-haiku-20240307"} |->
     [inputPrice |-> 25, outputPrice |-> 125,
      cacheCreationPrice |-> 30, cacheReadPrice |-> 3]]

\* the number NaN: the product of a token count and undefined
NaN == 0 - 2

\* names every object literal inherits from Object.prototype
ObjectPrototypeKeys == {"constructor", "toString"}

\* MODEL_PRICING[modelName] is a property lookup on an object literal: for an
\* inherited name it finds the inherited function, which is truthy and whose
\* price fields are undefined
getModelPricing(modelName) ==
  IF modelName \in DOMAIN MODEL_PRICING
    THEN MODEL_PRICING[modelName]
  ELSE IF modelName \in ObjectPrototypeKeys
    THEN [inputPrice |-> NaN, outputPrice |-> NaN,
          cacheCreationPrice |-> NaN, cacheReadPrice |-> NaN]
    ELSE MODEL_PRICING["claude-3-5-sonnet-20241022"]

\* a * b and a + b of numbers one of which may be NaN
Times(a, b) == IF a = NaN \/ b = NaN THEN NaN ELSE a * b
Plus(a, b) == IF a = NaN \/ b = NaN THEN NaN ELSE a + b

\* String.prototype.toLowerCase, character by character
toLowerCase(s) ==
  LET lower(c) ==
        CASE c = "A" -> "a" [] c = "B" -> "b" [] c = "C" -> "c" [] c = "D" -> "d"
          [] c = "E" -> "e" [] c = "F" -> "f" [] c = "G" -> "g" [] c = "H" -> "h"
          [] c = "I" -> "i" [] c = "J" -> "j" [] c = "K" -> "k" [] c = "L" -> "l"
          [] c = "M" -> "m" [] c = "N" -> "n" [] c = "O" -> "o" [] c = "P" -> "p"
          [] c = "Q" -> "q" [] c = "R" -> "r" [] c = "S" -> "s" [] c = "T" -> "t"
          [] c = "U" -> "u" [] c = "V" -> "v" [] c = "W" -> "w" [] c = "X" -> "x"
          [] c = "Y" -> "y" [] c = "Z" -> "z" [] OTHER -> c
      RECURSIVE Upto(_)
      Upto(i) == IF i = 0 THEN "" ELSE Upto(i - 1) \o lower(SubSeq(s, i, i))
  IN Upto(Len(s))

\* twice the multiplier: priority 1.0, standard 1.0, batch 0.5
getServiceTierMultiplier(serviceTier) ==
  IF serviceTier = "" THEN 2
  ELSE LET tier == toLowerCase(serviceTier) IN
       CASE tier = "priority" -> 2
         [] tier = "standard" -> 2
         [] tier = "batch" -> 1
         [] OTHER -> 2

calculateCost(usage, model, serviceTier) ==
  LET pricing == getModelPricing(model)
      tierMultiplier == getServiceTierMultiplier(serviceTier)
      inputCost == Times(Times(usage.input_tokens, pricing.inputPrice), tierMultiplier)
      outputCost == Times(Times(usage.output_tokens, pricing.outputPrice), tierMultiplier)
      cacheCreationCost ==
        Times(Times(usage.cache_creation_input_tokens, pricing.cacheCreationPrice),
              tierMultiplier)
      cacheReadCost ==
        Times(Times(usage.cache_read_input_tokens, pricing.cacheReadPrice),
              tierMultiplier)
  IN [inputCost |-> inputCost, outputCost |-> outputCost,
      cacheCreationCost |-> cacheCreationCost, cacheReadCost |-> cacheReadCost,
      totalCost |-> Plus(Plus(Plus(inputCost, outputCost), cacheCreationCost),
                         cacheReadCost),
      model |-> model, serviceTier |-> serviceTier]

----------------------------------------------------------------------------
(* Array.prototype.sort as V8 runs it on arrays shorter than 64 elements:  *)
(* one run is counted (and reversed when strictly descending), the rest is *)
(* inserted by binary insertion.  cmp names the comparator function the    *)
(* caller passes; a NaN result counts as 0.                                *)

\* (a, b) => b.mtime.getTime() - a.mtime.getTime() of getLogFiles
compareLogFiles(a, b) == b.mtime - a.mtime

\* the comparator of session.messages.sort: 0 when a timestamp is missing,
\* and the difference of two dates, which is NaN when one is invalid
compareMessages(a, b) ==
  IF a.timestamp = NoTs \/ b.timestamp = NoTs THEN 0
  ELSE IF a.timestamp = BadTs \/ b.timestamp = BadTs THEN 0
  ELSE a.timestamp - b.timestamp

\* (a, b) => b.startTime.getTime() - a.startTime.getTime()
compareSessions(a, b) == b.startTime - a.startTime

\* the call of the comparator function inside the sort
comparefn(cmp, a, b) ==
  CASE cmp = "compareLogFiles" -> compareLogFiles(a, b)
    [] cmp = "compareMessages" -> compareMessages(a, b)
    [] cmp = "compareSessions" -> compareSessions(a, b)

ReverseRange(a, n) ==
  [i \in 1..Len(a) |-> IF i <= n THEN a[n + 1 - i] ELSE a[i]]

CountAndMakeRun(a, cmp) ==
  IF Len(a) < 2 THEN [arr |-> a, runLength |-> Len(a)]
  ELSE
    LET isDescending == comparefn(cmp, a[2], a[1]) < 0
        Continues(idx) ==
          IF isDescending THEN comparefn(cmp, a[idx], a[idx - 1]) < 0
                          ELSE comparefn(cmp, a[idx], a[idx - 1]) >= 0
        \* the first index at which the run breaks, or Len(a)+1
        Breaks == {idx \in 3..Len(a) : ~Continues(idx)}
        stop == IF Breaks = {} THEN Len(a) + 1
                ELSE CHOOSE idx \in Breaks : \A j \in Breaks : idx <= j
        runLength == stop - 1
    IN [arr |-> IF isDescending THEN ReverseRange(a, runLength) ELSE a,
        runLength |-> runLength]

InsertAt(a, start, left) ==
  [p \in 1..Len(a) |->
     IF p = left THEN a[start]
     ELSE IF p > left /\ p <= start THEN a[p - 1]
     ELSE a[p]]

\* a[1..startArg-1] is the run; every later element is inserted at the
\* point found by bisection
BinaryInsertionSort(arr, startArg, cmp) ==
  LET RECURSIVE BinarySearch(_, _, _, _)
      BinarySearch(a, pivot, left, right) ==
        IF left >= right THEN left
        ELSE LET mid == left + ((right - left) \div 2) IN
             IF comparefn(cmp, pivot, a[mid]) < 0
               THEN BinarySearch(a, pivot, left, mid)
               ELSE BinarySearch(a, pivot, mid + 1, right)
      RECURSIVE Insert(_, _)
      Insert(a, start) ==
        IF start > Len(a) THEN a
        ELSE Insert(InsertAt(a, start, BinarySearch(a, a[start], 1, start)),
                    start + 1)
  IN Insert(arr, startArg)

ArraySort(a, cmp) ==
  IF Len(a) < 2 THEN a
  ELSE LET run == CountAndMakeRun(a, cmp) IN
       BinaryInsertionSort(run.arr, run.runLength + 1, cmp)

----------------------------------------------------------------------------
(* logFileParser.ts *)

File(mtime, readable, lines) ==
  [mtime |-> mtime, readable |-> readable, lines |-> lines]

\* the for loop of parseLogFileToSession over the non-blank lines: a line on
\* which JSON.parse throws is skipped, any parsed value is pushed (the
\* literal null included: the TypeError of entry.message comes after the
\* push and is caught by the same handler).  oid names the object created.
parseLines(lines, gen, f) ==
  LET RECURSIVE From(_)
      From(i) ==
        IF i > Len(lines) THEN <<>>
        ELSE IF lines[i].kind \in {"blank", "bad"} THEN From(i + 1)
        ELSE <<[lines[i] EXCEPT !.oid = <<gen, f, i>>]>> \o From(i + 1)
  IN From(1)

\* findSessionId that looks at the first entry only
findSessionId_FirstEntryOnly(messages) ==
  IF messages[1].sessionId # "" THEN messages[1].sessionId ELSE "unknown"

\* messages.find(msg => msg.sessionId)?.sessionId || 'unknown'
findSessionId(messages) ==
  LET with == SelectSeq(messages, LAMBDA msg : msg.sessionId # "")
  IN IF Len(with) > 0 THEN with[1].sessionId ELSE "unknown"

\* new Date(timestamp), with the isNaN check and its fallback new Date()
dateOrNow(timestamp, clock) ==
  IF timestamp = BadTs THEN clock ELSE timestamp

\* costedEntry that costs every entry with a usage, whatever its token counts
costedEntry_AnyUsage(msg) ==
  IF msg.usage = NoUsage THEN msg
  ELSE LET usage == msg.usage[1]
           model == IF msg.model # "" THEN msg.model ELSE "unknown"
       IN [msg EXCEPT !.cost =
             calculateCost(usage, model, usage.service_tier).totalCost]

\* the forEach over messages that adds up the tokens and sets usage.cost
costedEntry(msg) ==
  IF msg.usage = NoUsage THEN msg
  ELSE LET usage == msg.usage[1]
           model == IF msg.model # "" THEN msg.model ELSE "unknown"
       IN IF usage.input_tokens # 0 \/ usage.output_tokens # 0
            THEN [msg EXCEPT !.cost =
                    calculateCost(usage, model, usage.service_tier).totalCost]
            ELSE msg

entryTokens(msg) ==
  IF msg.usage = NoUsage THEN 0
  ELSE msg.usage[1].input_tokens + msg.usage[1].output_tokens

entryCost(msg) ==
  IF msg.cost = NoCost THEN 0 ELSE msg.cost

\* totalTokens and totalCost after the forEach
sumTokens(messages) ==
  LET RECURSIVE Upto(_)
      Upto(i) == IF i = 0 THEN 0 ELSE Upto(i - 1) + entryTokens(messages[i])
  IN Upto(Len(messages))

sumCost(messages) ==
  LET RECURSIVE Upto(_)
      Upto(i) == IF i = 0 THEN 0 ELSE Upto(i - 1) + entryCost(messages[i])
  IN Upto(Len(messages))

\* new Date(timestamp).toLocaleDateString(): the day of the timestamp
toLocaleDateString(timestamp) ==
  IF timestamp = BadTs THEN "Invalid Date"
  ELSE "day " \o ToString(timestamp \div 24)

\* generateSessionSummary: the text of the first user entry cut to 100
\* characters, else the text of the first summary entry, else the counts
\* of the entries and the day of the first timestamped one
generateSessionSummary(messages) ==
  LET users == SelectSeq(messages, LAMBDA msg : msg.type = "user")
      assistants == SelectSeq(messages, LAMBDA msg : msg.type = "assistant")
      summaries == SelectSeq(messages, LAMBDA msg : msg.type = "summary")
      stamped == SelectSeq(messages, LAMBDA msg : msg.timestamp # NoTs)
      content ==
        IF Len(users) > 0 /\ users[1].hasMessage
          THEN LET messageContent == users[1].content IN
               IF messageContent.kind = "string" THEN messageContent.text
               ELSE IF messageContent.kind = "array"
                 THEN LET texts == SelectSeq(messageContent.items,
                                             LAMBDA item : item.type = "text")
                      IN IF Len(texts) > 0 THEN texts[1].text ELSE ""
               ELSE ""
          ELSE ""
      dateStr == IF Len(stamped) > 0 THEN toLocaleDateString(stamped[1].timestamp)
                 ELSE "Unknown date"
  IN IF Len(content) > 0
       THEN IF Len(content) > 100 THEN SubSeq(content, 1, 100) \o "..." ELSE content
     ELSE IF Len(summaries) > 0 /\ summaries[1].summary # ""
       THEN summaries[1].summary
     ELSE ToString(Len(users)) \o " user, " \o ToString(Len(assistants))
          \o " assistant"
          \o (IF Len(summaries) > 0
                THEN ", " \o ToString(Len(summaries)) \o " summary" ELSE "")
          \o " messages - " \o dateStr

\* The result is <<>> for null and <<session>> otherwise.
parseLogFileToSession(file, gen, f, clock) ==
  IF ~file.readable THEN <<>>                      \* readFileSync throws
  ELSE
    LET messages == parseLines(file.lines, gen, f) IN
    IF Len(messages) = 0 THEN <<>>
    ELSE IF \E i \in 1..Len(messages) : messages[i].kind = "null"
      THEN <<>>       \* msg.sessionId / msg.timestamp of null throws; caught
    ELSE
      LET sessionId == findSessionId(messages)
          messagesWithTimestamp ==
            SelectSeq(messages, LAMBDA msg : msg.timestamp # NoTs)
          n == Len(messagesWithTimestamp)
          startTime == IF n > 0
                         THEN dateOrNow(messagesWithTimestamp[1].timestamp, clock)
                         ELSE file.mtime
          endTime == IF n > 0
                       THEN dateOrNow(messagesWithTimestamp[n].timestamp, clock)
                       ELSE file.mtime
          costed == [i \in 1..Len(messages) |-> costedEntry(messages[i])]
      IN <<[oid |-> <<gen, f>>,
            sessionId |-> sessionId,
            messages |-> costed,
            startTime |-> startTime,
            endTime |-> endTime,
            totalTokens |-> sumTokens(costed),
            totalCost |-> sumCost(costed),
            summary |-> generateSessionSummary(costed)]>>

\* the message of the exception getLogFiles throws (readdirSync or statSync
\* fails), "" when it returns
getLogFilesError(status) ==
  IF status = "EACCES" THEN "EACCES: permission denied, scandir" ELSE ""

\* getLogFiles without the sort: the first maxFiles files in readdir order
getLogFiles_Unsorted(status, d, maxFiles) ==
  IF status = "ENOENT" THEN <<>> ELSE
  LET n == IF Len(d) <= maxFiles THEN Len(d) ELSE maxFiles
  IN [i \in 1..n |-> i]

\* getLogFiles when it returns: nothing for a directory that does not exist,
\* else the .jsonl files, newest first, cut to maxFiles; a file is named by
\* its index in dir
getLogFiles(status, d, maxFiles) ==
  IF status = "ENOENT" THEN <<>> ELSE
  LET files == [i \in 1..Len(d) |-> [path |-> i, mtime |-> d[i].mtime]]
      sorted == ArraySort(files, "compareLogFiles")
      kept == IF Len(sorted) <= maxFiles THEN sorted
              ELSE SubSeq(sorted, 1, maxFiles)
  IN [i \in 1..Len(kept) |-> kept[i].path]

\* models.ts DateFilter: preset is "" when absent, from/to are NoDate when
\* absent; a call without a filter passes NoFilter
NoDate == 0
NoFilter == <<>>
DAY == 24

DateFilter(preset, from, to) ==
  <<[preset |-> preset, from |-> from, to |-> to]>>

\* new Date(year, month, date): local midnight of the day of clock
midnight(clock) == clock - (clock % DAY)

sessionMatchesDateFilter(session, filter, clock) ==
  LET fromDate ==
        IF filter.preset # "" THEN
          CASE filter.preset = "today" -> midnight(clock)
            [] filter.preset = "yesterday" -> midnight(clock) - DAY
            [] filter.preset = "week" -> clock - 7 * DAY
            [] filter.preset = "month" -> clock - 30 * DAY
            [] OTHER -> NoDate
        ELSE filter.from
      toDate ==
        IF filter.preset # "" THEN
          CASE filter.preset = "today" -> midnight(clock) + DAY
            [] filter.preset = "yesterday" -> midnight(clock)
            [] filter.preset = "week" -> clock
            [] filter.preset = "month" -> clock
            [] OTHER -> NoDate
        ELSE filter.to
  IN IF fromDate # NoDate /\ session.startTime < fromDate THEN FALSE
     ELSE IF toDate # NoDate /\ session.startTime > toDate THEN FALSE
     ELSE TRUE

\* mergeInto without the update of the start time
mergeInto_KeepsStartTime(existingSession, session) ==
  [existingSession EXCEPT
     !.messages = existingSession.messages \o session.messages,
     !.endTime = IF session.endTime > existingSession.endTime
                   THEN session.endTime ELSE existingSession.endTime,
     !.totalTokens = existingSession.totalTokens + session.totalTokens,
     !.totalCost = existingSession.totalCost + session.totalCost]

\* the branch of parseLogFiles that merges a session into the one the Map
\* already holds under its id
mergeInto(existingSession, session) ==
  [existingSession EXCEPT
     !.messages = existingSession.messages \o session.messages,
     !.endTime = IF session.endTime > existingSession.endTime
                   THEN session.endTime ELSE existingSession.endTime,
     !.startTime = IF session.startTime < existingSession.startTime
                     THEN session.startTime ELSE existingSession.startTime,
     !.totalTokens = existingSession.totalTokens + session.totalTokens,
     !.totalCost = existingSession.totalCost + session.totalCost]

\* mergeSession in which a file that gives no session empties the Map
mergeSession_NullDropsAll(sessionMap, parsed, filter, clock) ==
  IF parsed = <<>> THEN <<>>
  ELSE
    LET session == parsed[1] IN
    IF filter # NoFilter /\ ~sessionMatchesDateFilter(session, filter[1], clock)
      THEN sessionMap
    ELSE IF \E k \in 1..Len(sessionMap) : sessionMap[k].sessionId = session.sessionId
      THEN [k \in 1..Len(sessionMap) |->
              IF sessionMap[k].sessionId = session.sessionId
                THEN mergeInto(sessionMap[k], session)
                ELSE sessionMap[k]]
      ELSE Append(sessionMap, session)

\* the body of the for loop of parseLogFiles for one parsed file: sessionMap
\* is the Map in insertion order, parsed is null (<<>>) or a session
mergeSession(sessionMap, parsed, filter, clock) ==
  IF parsed = <<>> THEN sessionMap
  ELSE
    LET session == parsed[1] IN
    IF filter # NoFilter /\ ~sessionMatchesDateFilter(session, filter[1], clock)
      THEN sessionMap
    ELSE IF \E k \in 1..Len(sessionMap) : sessionMap[k].sessionId = session.sessionId
      THEN [k \in 1..Len(sessionMap) |->
              IF sessionMap[k].sessionId = session.sessionId
                THEN mergeInto(sessionMap[k], session)
                ELSE sessionMap[k]]
      ELSE Append(sessionMap, session)

sortMessages(session) ==
  [session EXCEPT !.messages = ArraySort(session.messages, "compareMessages")]

\* sortSessions without the final sort of the sessions
sortSessions_MessagesOnly(sessionMap) ==
  [k \in 1..Len(sessionMap) |-> sortMessages(sessionMap[k])]

\* lines 48-63 of parseLogFiles: Array.from(sessionMap.values()), the sort of
\* every session's messages, the sort of the sessions
sortSessions(sessionMap) ==
  ArraySort([k \in 1..Len(sessionMap) |-> sortMessages(sessionMap[k])],
            "compareSessions")

\* the Map after the first n files of logFiles went through the loop
mergedUpTo(d, logFiles, n, filter, gen, clock) ==
  LET RECURSIVE Upto(_)
      Upto(i) ==
        IF i = 0 THEN <<>>
        ELSE mergeSession(Upto(i - 1),
                          parseLogFileToSession(d[logFiles[i]], gen, logFiles[i], clock),
                          filter, clock)
  IN Upto(n)

parseLogFiles(status, d, maxFiles, filter, gen, clock) ==
  LET logFiles == getLogFiles(status, d, maxFiles)
  IN sortSessions(mergedUpTo(d, logFiles, Len(logFiles), filter, gen, clock))

----------------------------------------------------------------------------
(* Inputs of the parser specifications *)

SeqsUpTo(S, n) == UNION {[1..k -> S] : k \in 0..n}

MtimeSet == {26, 49}
ClockSet == {49}

\* a text of 101 characters
LongText ==
  "0123456789" \o "0123456789" \o "0123456789" \o "0123456789" \o "0123456789"
  \o "0123456789" \o "0123456789" \o "0123456789" \o "0123456789" \o "0123456789"
  \o "x"

EntryA ==
  [TranscriptEntry("s1", "u1", "user", 25, TRUE, "", NoUsage)
     EXCEPT !.content = StringContent("fix the login bug")]
EntryB ==
  [TranscriptEntry("s1", "u2", "assistant", 50, TRUE, "claude-sonnet-4",
                   UsageInfo(100, 50, 0, 0, ""))
     EXCEPT !.content =
       ArrayContent(<<ContentItem("text", "reading the file", "", <<>>),
                      ContentItem("tool_use", "", "bash",
                                  <<[command |-> "grep todo"]>>)>>)]
EntryC ==
  [TranscriptEntry("s1", "", "summary", NoTs, FALSE, "", NoUsage)
     EXCEPT !.summary = "login bug fixed"]
EntryD ==
  [TranscriptEntry("s1", "u4", "assistant", 47, TRUE, "claude-sonnet-4",
                   UsageInfo(0, 0, 1000, 0, ""))
     EXCEPT !.content = StringContent("done")]
EntryE ==
  [TranscriptEntry("s2", "u1", "user", 47, TRUE, "", NoUsage)
     EXCEPT !.content =
       ArrayContent(<<ContentItem("tool_result", "", "", <<>>),
                      ContentItem("text", "deploy it", "", <<>>)>>)]
EntryF ==
  [TranscriptEntry("", "", "system", 48, FALSE, "", NoUsage)
     EXCEPT !.systemContent = "running hook"]
EntryG ==
  [TranscriptEntry("s1", "u3", "user", BadTs, TRUE, "", NoUsage)
     EXCEPT !.content = StringContent(LongText)]

AggLineSet == {EntryA, EntryB, EntryC, EntryD, EntryE, EntryF}
ParseLineSet == {BlankLine, BadLine, NullLine, EntryA, EntryB, EntryC, EntryF, EntryG}

AggFileSet ==
  {File(m, TRUE, ls) : m \in MtimeSet, ls \in SeqsUpTo(AggLineSet, MaxLines)}
  \cup {File(m, FALSE, <<EntryA>>) : m \in MtimeSet}      \* cannot be read
  \cup {File(m, TRUE, <<BadLine>>) : m \in MtimeSet}      \* no line parses
ParseFileSet ==
  {File(m, r, ls) : m \in MtimeSet, r \in BOOLEAN,
                    ls \in SeqsUpTo(ParseLineSet, MaxParseLines)}

FilterSet ==
  {NoFilter, DateFilter("today", NoDate, NoDate),
   DateFilter("yesterday", NoDate, NoDate), DateFilter("", 47, NoDate)}

NoCall == [op |-> "none"]

----------------------------------------------------------------------------
(* logTreeProvider.ts: tree items and the two caches *)

SessionTreeItem(id, session) ==
  [id |-> id, kind |-> "session", session |-> <<session>>, message |-> <<>>,
   sessionId |-> session.sessionId, messageIndex |-> 0 - 1]

MessageTreeItem(id, message, sessionId, messageIndex) ==
  [id |-> id, kind |-> "message", session |-> <<>>, message |-> <<message>>,
   sessionId |-> sessionId, messageIndex |-> messageIndex]

\* the placeholders of the root; their text plays no part in any lookup
LoadingTreeItem ==
  [id |-> <<"loading", 0>>, kind |-> "loading", session |-> <<>>,
   message |-> <<>>, sessionId |-> "", messageIndex |-> 0 - 1]

ErrorTreeItem ==
  [id |-> <<"error", 0>>, kind |-> "error", session |-> <<>>,
   message |-> <<>>, sessionId |-> "", messageIndex |-> 0 - 1]

\* the cache key of a message item; index counts from 0
messageCacheKey(sessionId, message, index) ==
  IF message.uuid # ""
    THEN sessionId \o "-" \o message.uuid
    ELSE sessionId \o "-idx" \o ToString(index)

\* Map.set
MapSet(cache, key, item) == [k \in DOMAIN cache \cup {key} |->
                               IF k = key THEN item ELSE cache[k]]
EmptyMap == <<>>

\* the identity of the next object constructed for a cache key
Count(m, slot) == IF slot \in DOMAIN m THEN m[slot] ELSE 0
NewId(m, slot) == <<slot, Count(m, slot) + 1>>
Made(m, slot) == MapSet(m, slot, Count(m, slot) + 1)

Total(m) ==
  LET RECURSIVE Sum(_)
      Sum(S) == IF S = {} THEN 0
                ELSE LET x == CHOOSE y \in S : TRUE IN m[x] + Sum(S \ {x})
  IN Sum(DOMAIN m)

\* this.sessions.find(s => s.sessionId === sessionId): <<>> or <<session>>
findSession(sessionId) ==
  LET found == SelectSeq(sessions, LAMBDA s : s.sessionId = sessionId)
  IN IF Len(found) > 0 THEN <<found[1]>> ELSE <<>>

\* this.sessions.map(...) of getChildren at the root
rootSessionItems ==
  LET RECURSIVE Upto(_)
      Upto(k) ==
        IF k = 0
          THEN [items |-> <<>>, cache |-> sessionItemCache, made |-> made]
          ELSE LET acc == Upto(k - 1)
                   session == sessions[k]
               IN IF session.sessionId \in DOMAIN acc.cache
                    THEN [acc EXCEPT !.items = Append(@, acc.cache[session.sessionId])]
                    ELSE LET slot == "session-" \o session.sessionId
                             item == SessionTreeItem(NewId(acc.made, slot), session)
                         IN [items |-> Append(acc.items, item),
                             cache |-> MapSet(acc.cache, session.sessionId, item),
                             made |-> Made(acc.made, slot)]
  IN Upto(Len(sessions))

\* the test getChildren applies to a cached message item
cachedMessageIsCurrent(cached, message, index) ==
  cached.message[1].oid = message.oid /\ cached.messageIndex = index

\* element.session.messages.map(...) of getChildren below a session item
sessionMessageItems(element) ==
  LET session == element.session[1]
      RECURSIVE Upto(_)
      Upto(k) ==
        IF k = 0
          THEN [items |-> <<>>, cache |-> messageItemCache, made |-> made]
          ELSE LET acc == Upto(k - 1)
                   message == session.messages[k]
                   index == k - 1
                   cacheKey == messageCacheKey(session.sessionId, message, index)
               IN IF /\ cacheKey \in DOMAIN acc.cache
                     /\ cachedMessageIsCurrent(acc.cache[cacheKey], message, index)
                    THEN [acc EXCEPT !.items = Append(@, acc.cache[cacheKey])]
                    ELSE LET slot == "message-" \o cacheKey
                             item == MessageTreeItem(NewId(acc.made, slot), message,
                                                     session.sessionId, index)
                         IN [items |-> Append(acc.items, item),
                             cache |-> MapSet(acc.cache, cacheKey, item),
                             made |-> Made(acc.made, slot)]
  IN Upto(Len(session.messages))

\* "get cached tree item or create new one" of getParent, selectMessage,
\* selectMessageByIndex and expandSession
\* sessionItemFor without the cache write of a newly made item
sessionItemFor_NotCached(session, m) ==
  IF session.sessionId \in DOMAIN sessionItemCache
    THEN [item |-> sessionItemCache[session.sessionId],
          cache |-> sessionItemCache, made |-> m]
    ELSE LET slot == "session-" \o session.sessionId
         IN [item |-> SessionTreeItem(NewId(m, slot), session),
             cache |-> sessionItemCache, made |-> Made(m, slot)]

sessionItemFor(session, m) ==
  IF session.sessionId \in DOMAIN sessionItemCache
    THEN [item |-> sessionItemCache[session.sessionId],
          cache |-> sessionItemCache, made |-> m]
    ELSE LET slot == "session-" \o session.sessionId
             item == SessionTreeItem(NewId(m, slot), session)
         IN [item |-> item,
             cache |-> MapSet(sessionItemCache, session.sessionId, item),
             made |-> Made(m, slot)]

messageItemFor(sessionId, message, messageIndex, m) ==
  LET cacheKey == messageCacheKey(sessionId, message, messageIndex) IN
  IF cacheKey \in DOMAIN messageItemCache
    THEN [item |-> messageItemCache[cacheKey],
          cache |-> messageItemCache, made |-> m]
    ELSE LET slot == "message-" \o cacheKey
             item == MessageTreeItem(NewId(m, slot), message, sessionId, messageIndex)
         IN [item |-> item, cache |-> MapSet(messageItemCache, cacheKey, item),
             made |-> Made(m, slot)]

\* bookkeeping of a step that hands out the tree items in items
HandOut(items, m) ==
  /\ Total(m) <= MaxHandles
  /\ made' = m
  /\ issued' = issued \cup {items[i] : i \in 1..Len(items)}
  /\ UNCHANGED barrier

\* bookkeeping of a step that hands out nothing
NoHandOut == UNCHANGED <<made, issued>>

----------------------------------------------------------------------------
(* logTreeProvider.ts: the async operations.  A task is a call suspended   *)
(* at an await; pc names the await it resumes from.  Every await is a      *)
(* point at which the other handlers and continuations may run.            *)

Task(kind, pc, projectPath, filter, logFiles, error, gen, h0) ==
  [kind |-> kind, pc |-> pc, projectPath |-> projectPath, dateFilter |-> filter,
   logFiles |-> logFiles, error |-> error, gen |-> gen, h0 |-> h0]

\* where the caller of loadSessions() resumes once loadSessions() returned
afterLoadSessions(kind) ==
  IF kind \in {"refresh", "lazyInitialize"} THEN "initialize" ELSE kind

Remove(seq, i) == [k \in 1..(Len(seq) - 1) |-> IF k < i THEN seq[k] ELSE seq[k + 1]]

Max(a, b) == IF a >= b THEN a ELSE b

\* the barrier after an operation that started when made was h0 completed
Raise(b, h0) ==
  [slot \in DOMAIN b \cup DOMAIN h0 |-> Max(Count(b, slot), Count(h0, slot))]

\* a call of initialize() that has not yet returned
Loading(t) ==
  /\ t.kind \in {"refresh", "lazyInitialize"}
  /\ t.pc \in {"detectCurrentProject", "parseLogFiles", "initialize"}

LoadsInFlight == {i \in 1..Len(tasks) : Loading(tasks[i])}

\* lazyInitialize() past its guard, up to the await inside initialize():
\* detectCurrentProject() has run and its promise is awaited
lazyInitialize(kind, pending) ==
  /\ initializing' = TRUE
  /\ tasks' = Append(pending, Task(kind, "detectCurrentProject", workspaceHasProject,
                                   NoFilter, <<>>, "", 0, made))
  /\ opCount' = opCount + 1

\* refresh() up to its first await; pending are the other suspended calls
refresh(pending) ==
  /\ opCount < MaxOps /\ Len(pending) < MaxTasks
  /\ initialized' = FALSE
  /\ initializationError' = ""
  /\ sessionItemCache' = EmptyMap
  /\ messageItemCache' = EmptyMap
  /\ lazyInitialize("refresh", pending)
  /\ UNCHANGED <<sessions, dateFilter, treeView, nextGen, barrier>>
  /\ NoHandOut

\* the command claudeLogNavigator.refresh
RefreshCommand ==
  /\ refresh(tasks)
  /\ UNCHANGED <<logFileParser, hostVars>>

\* onDidChangeConfiguration for claudeLogNavigator.maxFiles
ConfigurationChanged ==
  \E maxFiles \in 1..MaxFiles :
    /\ maxFiles # configMaxFiles
    /\ configMaxFiles' = maxFiles
    /\ logFileParser' = IF logFileParser = <<>> THEN <<>>
                        ELSE <<[maxFiles |-> maxFiles]>>      \* updateMaxFiles
    /\ refresh(tasks)
    /\ UNCHANGED workspaceHasProject

\* onDidChangeWorkspaceFolders up to its await of hasClaudeProject()
WorkspaceFoldersChanged ==
  /\ opCount < MaxOps /\ Len(tasks) < MaxTasks
  /\ workspaceHasProject' = ~workspaceHasProject
  /\ tasks' = Append(tasks, Task("onDidChangeWorkspaceFolders", "hasClaudeProject",
                                 workspaceHasProject', NoFilter, <<>>, "", 0, made))
  /\ UNCHANGED <<configMaxFiles, providerVars, opCount, nextGen, barrier>>
  /\ NoHandOut

\* onDidChangeWorkspaceFolders after the await: it calls refresh()
ResumeWorkspaceFoldersChanged(i) ==
  /\ tasks[i].pc = "hasClaudeProject"
  /\ refresh(Remove(tasks, i))
  /\ UNCHANGED <<logFileParser, hostVars>>

\* loadSessions() that calls parseLogFiles() without the date filter
loadSessions_Unfiltered(kind, parser, filter, pending, h0) ==
  IF parser = <<>>
    THEN /\ sessions' = <<>>
         /\ tasks' = Append(pending, Task(kind, afterLoadSessions(kind), TRUE, NoFilter,
                                          <<>>, "", 0, h0))
         /\ UNCHANGED nextGen
    ELSE /\ tasks' = Append(pending, Task(kind, "parseLogFiles", TRUE, NoFilter,
                                          getLogFiles(dirStatus, dir, parser[1].maxFiles),
                                          getLogFilesError(dirStatus), nextGen, h0))
         /\ nextGen' = nextGen + 1
         /\ UNCHANGED sessions

\* loadSessions() up to its await: without a parser the sessions are emptied
\* and the call returns, with one parseLogFiles(this.dateFilter) is called
\* and getLogFiles() runs; an exception it throws rejects its promise
loadSessions(kind, parser, filter, pending, h0) ==
  IF parser = <<>>
    THEN /\ sessions' = <<>>
         /\ tasks' = Append(pending, Task(kind, afterLoadSessions(kind), TRUE, filter,
                                          <<>>, "", 0, h0))
         /\ UNCHANGED nextGen
    ELSE /\ tasks' = Append(pending, Task(kind, "parseLogFiles", TRUE, filter,
                                          getLogFiles(dirStatus, dir, parser[1].maxFiles),
                                          getLogFilesError(dirStatus), nextGen, h0))
         /\ nextGen' = nextGen + 1
         /\ UNCHANGED sessions

\* initialize() after the await of detectCurrentProject(); without a project
\* path it ends here, and lazyInitialize() fires the change event and returns
ResumeDetectCurrentProject(i) ==
  LET t == tasks[i] IN
  /\ t.pc = "detectCurrentProject"
  /\ IF t.projectPath
       THEN /\ logFileParser' = <<[maxFiles |-> configMaxFiles]>>
            /\ loadSessions(t.kind, logFileParser', dateFilter, Remove(tasks, i), t.h0)
            /\ UNCHANGED <<initialized, initializing, initializationError, barrier>>
       ELSE /\ initializationError' = "No Claude project found in current workspace"
            /\ initialized' = TRUE
            /\ initializing' = FALSE
            /\ tasks' = Remove(tasks, i)
            /\ barrier' = IF t.kind = "refresh" THEN Raise(barrier, t.h0) ELSE barrier
            /\ UNCHANGED <<logFileParser, sessions, nextGen>>
  /\ UNCHANGED <<hostVars, dateFilter, treeView, sessionItemCache, messageItemCache,
                 opCount>>
  /\ NoHandOut

\* parseLogFiles after the await of getLogFiles(), to its return (the
\* exception of getLogFiles() rethrown and caught by loadSessions(), or the loop
\* over the files, whose awaits touch only the files and the local Map, the
\* sort of the messages and the sort of the sessions), and the assignment
\* this.sessions = await ... of loadSessions() that receives the result
ResumeParseLogFiles(i) ==
  LET t == tasks[i] IN
  /\ t.pc = "parseLogFiles"
  /\ sessions' = IF t.error # ""
                   THEN <<>>          \* catch (error) { this.sessions = [] }
                   ELSE sortSessions(mergedUpTo(dir, t.logFiles, Len(t.logFiles),
                                                t.dateFilter, t.gen, now))
  /\ tasks' = [tasks EXCEPT ![i].pc = afterLoadSessions(t.kind)]
  /\ UNCHANGED <<hostVars, logFileParser, dateFilter, initialized, initializing,
                 initializationError, treeView, sessionItemCache, messageItemCache,
                 opCount, nextGen, barrier>>
  /\ NoHandOut

\* initialize() after the await of loadSessions(), with its finally block;
\* lazyInitialize() then fires the change event and the call returns
ResumeInitialize(i) ==
  /\ tasks[i].pc = "initialize"
  /\ initialized' = TRUE
  /\ initializationError' = ""
  /\ initializing' = FALSE
  /\ tasks' = Remove(tasks, i)
  /\ barrier' = IF tasks[i].kind = "refresh" THEN Raise(barrier, tasks[i].h0) ELSE barrier
  /\ UNCHANGED <<hostVars, sessions, logFileParser, dateFilter, treeView,
                 sessionItemCache, messageItemCache, opCount, nextGen>>
  /\ NoHandOut

\* applyDateFilter(filter) up to its await of loadSessions()
applyDateFilter(filter) ==
  /\ opCount < MaxOps /\ Len(tasks) < MaxTasks
  /\ dateFilter' = filter
  /\ loadSessions("applyDateFilter", logFileParser, filter, tasks, made)
  /\ opCount' = opCount + 1
  /\ UNCHANGED <<hostVars, logFileParser, initialized, initializing,
                 initializationError, treeView, sessionItemCache, messageItemCache,
                 barrier>>
  /\ NoHandOut

\* clearFilter() up to its await of loadSessions()
clearFilter ==
  /\ opCount < MaxOps /\ Len(tasks) < MaxTasks
  /\ dateFilter' = NoFilter
  /\ loadSessions("clearFilter", logFileParser, NoFilter, tasks, made)
  /\ opCount' = opCount + 1
  /\ UNCHANGED <<hostVars, logFileParser, initialized, initializing,
                 initializationError, treeView, sessionItemCache, messageItemCache,
                 barrier>>
  /\ NoHandOut

\* ResumeFilter clearing the session item cache only
ResumeFilter_KeepsMessageItems(i) ==
  /\ tasks[i].pc \in {"applyDateFilter", "clearFilter"}
  /\ sessionItemCache' = EmptyMap
  /\ tasks' = Remove(tasks, i)
  /\ barrier' = Raise(barrier, tasks[i].h0)
  /\ UNCHANGED <<hostVars, sessions, logFileParser, dateFilter, initialized,
                 initializing, initializationError, treeView, opCount, nextGen,
                 messageItemCache>>
  /\ NoHandOut

\* applyDateFilter / clearFilter after the await: both caches are cleared
ResumeFilter(i) ==
  /\ tasks[i].pc \in {"applyDateFilter", "clearFilter"}
  /\ sessionItemCache' = EmptyMap
  /\ messageItemCache' = EmptyMap
  /\ tasks' = Remove(tasks, i)
  /\ barrier' = Raise(barrier, tasks[i].h0)
  /\ UNCHANGED <<hostVars, sessions, logFileParser, dateFilter, initialized,
                 initializing, initializationError, treeView, opCount, nextGen>>
  /\ NoHandOut

----------------------------------------------------------------------------
(* logTreeProvider.ts: lookups and reveal operations (synchronous parts) *)

\* getChildren() at the root
GetChildrenRoot ==
  /\ IF initializing \/ initializationError # ""
       THEN \* [new LoadingTreeItem()] or [new ErrorTreeItem(..)]
            /\ HandOut(<<>>, made)
            /\ UNCHANGED <<providerVars, asyncVars>>
     ELSE IF ~initialized
       THEN \* this.lazyInitialize(), not awaited; [new LoadingTreeItem()]
            /\ opCount < MaxOps /\ Len(tasks) < MaxTasks
            /\ lazyInitialize("lazyInitialize", tasks)
            /\ NoHandOut
            /\ UNCHANGED <<sessions, logFileParser, dateFilter, initialized,
                           initializationError, treeView, sessionItemCache,
                           messageItemCache, nextGen, barrier>>
       ELSE LET r == rootSessionItems IN
            /\ HandOut(r.items, r.made)
            /\ sessionItemCache' = r.cache
            /\ UNCHANGED <<sessions, logFileParser, dateFilter, initialized,
                           initializing, initializationError, treeView,
                           messageItemCache, asyncVars>>
  /\ UNCHANGED hostVars

\* getChildren(element) for a tree item
getChildren(element) ==
  /\ IF element.kind = "session"
       THEN LET r == sessionMessageItems(element) IN
            /\ HandOut(r.items, r.made)
            /\ messageItemCache' = r.cache
       ELSE /\ HandOut(<<>>, made)
            /\ UNCHANGED messageItemCache
  /\ UNCHANGED <<hostVars, sessions, logFileParser, dateFilter, initialized,
                 initializing, initializationError, treeView, sessionItemCache,
                 asyncVars>>

\* the view asks for the children of a tree item it holds
GetChildrenElement == \E element \in issued : getChildren(element)

\* what getParent(element) returns, <<>> (undefined) or <<sessionItem>>, with
\* the session item cache and the construction counters it leaves
\* parentOf that constructs a new session item whether one is cached or not
parentOf_AlwaysNew(element) ==
  LET session == IF element.kind = "message" THEN findSession(element.sessionId)
                 ELSE <<>>
  IN IF session # <<>>
       THEN LET slot == "session-" \o session[1].sessionId
                item == SessionTreeItem(NewId(made, slot), session[1])
            IN [value |-> <<item>>,
                cache |-> MapSet(sessionItemCache, session[1].sessionId, item),
                made |-> Made(made, slot)]
       ELSE [value |-> <<>>, cache |-> sessionItemCache, made |-> made]

parentOf(element) ==
  LET session == IF element.kind = "message" THEN findSession(element.sessionId)
                 ELSE <<>>
  IN IF session # <<>>
       THEN LET r == sessionItemFor(session[1], made)
            IN [value |-> <<r.item>>, cache |-> r.cache, made |-> r.made]
       ELSE [value |-> <<>>, cache |-> sessionItemCache, made |-> made]

\* getParent(element) for a tree item
getParent(element) ==
  LET r == parentOf(element) IN
  /\ HandOut(r.value, r.made)
  /\ sessionItemCache' = r.cache
  /\ callResult' = [op |-> "getParent", element |-> element, value |-> r.value]
  /\ UNCHANGED <<hostVars, sessions, logFileParser, dateFilter, initialized,
                 initializing, initializationError, treeView, messageItemCache,
                 asyncVars>>

\* String.prototype.includes
includes(text, query) ==
  \E i \in 1..(Len(text) - Len(query) + 1) :
    SubSeq(text, i, i + Len(query) - 1) = query

\* String.prototype.trim of query is empty
isBlank(query) == \A i \in 1..Len(query) : SubSeq(query, i, i) = " "

\* JSON.stringify of a tool input, an object with the one property command
JSONstringify(input) == "{\"command\":\"" \o input.command \o "\"}"

\* messageMatchesQuery of the search provider
messageMatchesQuery(message, lowerQuery) ==
  \/ /\ message.hasMessage
     /\ LET content == message.content IN
        \/ /\ content.kind = "string"
           /\ includes(toLowerCase(content.text), lowerQuery)
        \/ /\ content.kind = "array"
           /\ \E i \in 1..Len(content.items) :
                LET item == content.items[i] IN
                \/ item.text # "" /\ includes(toLowerCase(item.text), lowerQuery)
                \/ item.name # "" /\ includes(toLowerCase(item.name), lowerQuery)
                \/ /\ item.input # <<>>
                   /\ includes(toLowerCase(JSONstringify(item.input[1])), lowerQuery)
  \/ message.summary # "" /\ includes(toLowerCase(message.summary), lowerQuery)
  \/ /\ message.systemContent # ""
     /\ includes(toLowerCase(message.systemContent), lowerQuery)

\* the LogSession objects getAllSessions() takes from getChildren() at the
\* root: those of the session items, none while the root shows a placeholder
getAllSessions ==
  IF initializing \/ initializationError # "" \/ ~initialized THEN <<>>
  ELSE LET items == rootSessionItems.items
       IN [k \in 1..Len(items) |-> items[k].session[1]]

\* the entries performSearch puts into the quick pick, as pairs of the
\* session object and the message object
searchResults(allSessions, lowerQuery) ==
  LET RECURSIVE Sessions(_), Messages(_, _)
      Messages(session, j) ==
        IF j = 0 THEN <<>>
        ELSE Messages(session, j - 1) \o
             (IF messageMatchesQuery(session.messages[j], lowerQuery)
                THEN <<[session |-> session.oid, message |-> session.messages[j]]>>
                ELSE <<>>)
      Sessions(k) ==
        IF k = 0 THEN <<>>
        ELSE Sessions(k - 1) \o Messages(allSessions[k], Len(allSessions[k].messages))
  IN Sessions(Len(allSessions))

\* the queries typed into the quick pick
QuerySet == {"LOGIN", "Deploy", " "}

\* performSearch(query): a blank query returns at once; otherwise
\* getChildren() runs at the root and its session items are scanned
performSearch(query) ==
  IF isBlank(query)
    THEN UNCHANGED <<engineVars, callResult>>
    ELSE /\ GetChildrenRoot
         /\ callResult' = [op |-> "performSearch", query |-> query,
                           value |-> searchResults(getAllSessions, toLowerCase(query))]

PerformSearch == \E query \in QuerySet : performSearch(query)

\* the view asks for the parent of a tree item it holds: an item handed out
\* earlier or one of the placeholders the root shows while loading or in error
GetParent ==
  \E element \in issued \cup {LoadingTreeItem, ErrorTreeItem} : getParent(element)

\* the arguments the callers pass
SessionIdSet == {"s1", "s2"}
UuidSet == {"u1", "u2"}

\* index (from 1) of the first message with this uuid, 0 when there is none
findIndexByUuid(messages, messageId) ==
  LET hits == {k \in 1..Len(messages) : messages[k].uuid = messageId}
  IN IF hits = {} THEN 0 ELSE CHOOSE k \in hits : \A j \in hits : k <= j

\* the two items selectMessage / selectMessageByIndex reveal for the
\* message at position k (from 1) of session
RevealMessage(session, k) ==
  LET message == session.messages[k]
      s == sessionItemFor(session, made)
      m == messageItemFor(session.sessionId, message, k - 1, s.made)
  IN /\ HandOut(<<s.item, m.item>>, m.made)
     /\ sessionItemCache' = s.cache
     /\ messageItemCache' = m.cache

RevealNothing ==
  /\ HandOut(<<>>, made)
  /\ UNCHANGED <<sessionItemCache, messageItemCache>>

\* selectMessage(sessionId, messageId), also reached through revealMessage
selectMessage(sessionId, messageId) ==
  LET session == findSession(sessionId)
      k == IF session = <<>> THEN 0
           ELSE findIndexByUuid(session[1].messages, messageId)
  IN /\ IF treeView /\ session # <<>> /\ k # 0
          THEN RevealMessage(session[1], k)
          ELSE RevealNothing
     /\ UNCHANGED <<hostVars, sessions, logFileParser, dateFilter, initialized,
                    initializing, initializationError, treeView, asyncVars>>

SelectMessage ==
  \E sessionId \in SessionIdSet, messageId \in UuidSet :
    selectMessage(sessionId, messageId)

\* selectMessageByIndex(sessionId, messageIndex)
selectMessageByIndex(sessionId, messageIndex) ==
  LET session == findSession(sessionId) IN
  /\ IF treeView /\ session # <<>> /\ messageIndex < Len(session[1].messages)
       THEN RevealMessage(session[1], messageIndex + 1)
       ELSE RevealNothing
  /\ UNCHANGED <<hostVars, sessions, logFileParser, dateFilter, initialized,
                 initializing, initializationError, treeView, asyncVars>>

SelectMessageByIndex ==
  \E sessionId \in SessionIdSet, messageIndex \in 0..MaxIndex :
    selectMessageByIndex(sessionId, messageIndex)

\* expandSession(sessionId)
ExpandSession ==
  \E sessionId \in SessionIdSet :
    LET session == findSession(sessionId) IN
    /\ IF treeView /\ session # <<>>
         THEN LET r == sessionItemFor(session[1], made) IN
              /\ HandOut(<<r.item>>, r.made)
              /\ sessionItemCache' = r.cache
         ELSE /\ HandOut(<<>>, made)
              /\ UNCHANGED sessionItemCache
    /\ UNCHANGED <<hostVars, sessions, logFileParser, dateFilter, initialized,
                   initializing, initializationError, treeView, messageItemCache,
                   asyncVars>>

----------------------------------------------------------------------------
(* Spec: the extension after activate(), on a fixed log directory *)

EngineDirs ==
  {<<File(49, TRUE, <<EntryA>>), File(26, TRUE, <<EntryA>>)>>,
   <<File(26, TRUE, <<EntryE>>), File(49, TRUE, <<EntryA, EntryC>>)>>}

EngineFilterSet == {DateFilter("", 47, NoDate)}

InitEngine ==
  /\ workspaceHasProject \in BOOLEAN
  /\ configMaxFiles = MaxFiles
  /\ sessions = <<>>
  /\ logFileParser = <<>>
  /\ dateFilter = NoFilter
  /\ initialized = FALSE
  /\ initializing = FALSE
  /\ initializationError = ""
  /\ treeView = TRUE                \* activate() calls setTreeView at once
  /\ sessionItemCache = EmptyMap
  /\ messageItemCache = EmptyMap
  /\ tasks = <<>>
  /\ opCount = 0
  /\ nextGen = 0
  /\ made = EmptyMap
  /\ issued = {}
  /\ barrier = EmptyMap

\* no quick pick
NoQuickPick ==
  [shown |-> "none", value |-> "", items |-> <<>>, historyItems |-> <<>>,
   pendingChange |-> FALSE]

\* the search provider and its history after construction: nothing stored,
\* no quick pick created, no timer set
InitSearch ==
  /\ globalState = <<>>
  /\ addQueryCall = <<>>
  /\ addQueryCount = 0
  /\ quickPick = NoQuickPick
  /\ searchTimeout = <<>>
  /\ timers = <<>>
  /\ time = 0
  /\ valueSince = 0
  /\ scan = <<>>
  /\ acceptTask = <<>>

Init ==
  /\ dir \in EngineDirs
  /\ dirStatus \in {"ok", "EACCES"}
  /\ now \in ClockSet
  /\ callResult = NoCall
  /\ InitEngine
  /\ InitSearch

ApplyDateFilter == \E filter \in EngineFilterSet : applyDateFilter(filter)

ClearFilter == clearFilter

Resume ==
  \E i \in 1..Len(tasks) :
    \/ ResumeWorkspaceFoldersChanged(i)
    \/ ResumeDetectCurrentProject(i)
    \/ ResumeParseLogFiles(i)
    \/ ResumeInitialize(i)
    \/ ResumeFilter(i)

Next ==
  \/ (RefreshCommand /\ UNCHANGED <<envVars, searchVars>> /\ callResult' = NoCall)
  \/ (ConfigurationChanged /\ UNCHANGED <<envVars, searchVars>> /\ callResult' = NoCall)
  \/ (WorkspaceFoldersChanged /\ UNCHANGED <<envVars, searchVars>> /\ callResult' = NoCall)
  \/ (ApplyDateFilter /\ UNCHANGED <<envVars, searchVars>> /\ callResult' = NoCall)
  \/ (ClearFilter /\ UNCHANGED <<envVars, searchVars>> /\ callResult' = NoCall)
  \/ (Resume /\ UNCHANGED <<envVars, searchVars>> /\ callResult' = NoCall)
  \/ (GetChildrenRoot /\ UNCHANGED <<envVars, searchVars>> /\ callResult' = NoCall)
  \/ (GetChildrenElement /\ UNCHANGED <<envVars, searchVars>> /\ callResult' = NoCall)
  \/ (GetParent /\ UNCHANGED <<envVars, searchVars>>)
  \/ (PerformSearch /\ UNCHANGED <<envVars, searchVars>>)
  \/ (SelectMessage /\ UNCHANGED <<envVars, searchVars>> /\ callResult' = NoCall)
  \/ (SelectMessageByIndex /\ UNCHANGED <<envVars, searchVars>> /\ callResult' = NoCall)
  \/ (ExpandSession /\ UNCHANGED <<envVars, searchVars>> /\ callResult' = NoCall)

Spec == Init /\ [][Next]_vars

----------------------------------------------------------------------------
(* SpecParse: parseLogFileToSession on one file *)

InitParse ==
  /\ dir \in {<<f>> : f \in ParseFileSet}
  /\ dirStatus = "ok"
  /\ now \in ClockSet
  /\ callResult = NoCall
  /\ InitEngine
  /\ InitSearch

CallParseLogFileToSession ==
  /\ callResult = NoCall
  /\ callResult' = [op |-> "parseLogFileToSession",
                    value |-> parseLogFileToSession(dir[1], 0, 1, now)]
  /\ UNCHANGED <<envVars, engineVars, searchVars>>

NextParse == CallParseLogFileToSession

SpecParse == InitParse /\ [][NextParse]_vars

----------------------------------------------------------------------------
(* SpecAgg: parseLogFiles on a directory *)

\* the directories a call of parseLogFiles returns for: one that can be
\* listed, or none at all
InitAgg ==
  /\ \/ dir \in SeqsUpTo(AggFileSet, MaxFiles) /\ dirStatus = "ok"
     \/ dir = <<>> /\ dirStatus = "ENOENT"
  /\ now \in ClockSet
  /\ callResult = NoCall
  /\ InitEngine
  /\ InitSearch

CallParseLogFiles ==
  /\ callResult = NoCall
  /\ \E filter \in FilterSet, maxFiles \in 1..MaxFiles :
       callResult' = [op |-> "parseLogFiles",
                      dateFilter |-> filter, maxFiles |-> maxFiles,
                      value |-> parseLogFiles(dirStatus, dir, maxFiles, filter, 0, now)]
  /\ UNCHANGED <<envVars, engineVars, searchVars>>

NextAgg == CallParseLogFiles

SpecAgg == InitAgg /\ [][NextAgg]_vars

----------------------------------------------------------------------------
(* SpecCost: calculateCost on one usage *)

\* token counts of a usage; an absent cache count is 0 (the || 0 of the code)
CostUsageSet ==
  {UsageInfo(i, o, cc, cr, "")[1] :
     i \in {0, 100}, o \in {0, 50}, cc \in {0, 1000}, cr \in {0, 2000}}

\* model names: keys of the pricing table and names that are not
CostModelSet ==
  {"claude-opus-4", "claude-sonnet-4", "claude-3-5-sonnet-20241022",
   "claude-3-haiku-20240307", "unknown", "gpt-4", "constructor"}

\* service tiers; "" is an absent tier
CostTierSet ==
  {"", "batch", "Batch", "BATCH", "priority", "Priority", "standard", "flex"}

InitCost ==
  /\ dir = <<>>
  /\ dirStatus = "ok"
  /\ now \in ClockSet
  /\ callResult = NoCall
  /\ InitEngine
  /\ InitSearch

CallCalculateCost ==
  /\ callResult = NoCall
  /\ \E usage \in CostUsageSet, model \in CostModelSet, serviceTier \in CostTierSet :
       callResult' = [op |-> "calculateCost", usage |-> usage, model |-> model,
                      serviceTier |-> serviceTier,
                      value |-> calculateCost(usage, model, serviceTier)]
  /\ UNCHANGED <<envVars, engineVars, searchVars>>

NextCost == CallCalculateCost

SpecCost == InitCost /\ [][NextCost]_vars

----------------------------------------------------------------------------
(* SpecHistory: SearchHistory.addQuery on the stored history *)

MAX_HISTORY_SIZE == 10

MaxAddQuery == 12   \* addQuery calls

\* the queries the callers pass; the one not yet stored that comes first
\* here is the one passed next
HistoryQueries ==
  <<"q01", "q02", "q03", "q04", "q05", "q06", "q07", "q08", "q09", "q10", "q11">>

\* queries whose trim() is empty
BlankQueries == {"", "  "}

\* Array.prototype.indexOf from 1, 0 when the query is not in the array
historyIndexOf(history, query) ==
  LET hits == {i \in 1..Len(history) : history[i] = query}
  IN IF hits = {} THEN 0 ELSE CHOOSE i \in hits : \A j \in hits : i <= j

\* addQueryArray without the splice of the entry already present
addQueryArray_NoSplice(history, query) ==
  LET unshifted == <<query>> \o history
  IN IF Len(unshifted) > MAX_HISTORY_SIZE
       THEN SubSeq(unshifted, 1, MAX_HISTORY_SIZE)
       ELSE unshifted

\* the array addQuery stores: splice out the query, unshift it, cut at
\* MAX_HISTORY_SIZE
addQueryArray(history, query) ==
  LET existingIndex == historyIndexOf(history, query)
      spliced == IF existingIndex # 0 THEN Remove(history, existingIndex) ELSE history
      unshifted == <<query>> \o spliced
  IN IF Len(unshifted) > MAX_HISTORY_SIZE
       THEN SubSeq(unshifted, 1, MAX_HISTORY_SIZE)
       ELSE unshifted

\* addQuery(query) up to "await this.getHistory()": a blank query returns
\* at once
addQuery(query) ==
  /\ addQueryCall' = IF isBlank(query) THEN <<>>
                     ELSE <<[query |-> query, history |-> globalState]>>
  /\ addQueryCount' = addQueryCount + 1
  /\ UNCHANGED globalState

\* the rest of addQuery, up to the globalState.update
ResumeAddQuery ==
  /\ addQueryCall # <<>>
  /\ globalState' = addQueryArray(addQueryCall[1].history, addQueryCall[1].query)
  /\ addQueryCall' = <<>>
  /\ UNCHANGED addQueryCount

\* the queries a caller passes in the present state
HistoryChoices ==
  LET stored == {globalState[i] : i \in 1..Len(globalState)}
      absent == {i \in 1..Len(HistoryQueries) : HistoryQueries[i] \notin stored}
  IN stored \cup BlankQueries
     \cup (IF absent = {} THEN {}
           ELSE {HistoryQueries[CHOOSE i \in absent : \A j \in absent : i <= j]})

\* a caller calls addQuery; the caller awaits the call, so the next call
\* starts when this one has returned
AddQuery ==
  /\ addQueryCall = <<>>
  /\ addQueryCount < MaxAddQuery
  /\ \E query \in HistoryChoices : addQuery(query)

InitHistory ==
  /\ dir = <<>>
  /\ dirStatus = "ok"
  /\ now \in ClockSet
  /\ callResult = NoCall
  /\ InitEngine
  /\ InitSearch

NextHistory ==
  \/ (AddQuery /\ UNCHANGED <<envVars, callResult, engineVars, pickVars>>)
  \/ (ResumeAddQuery /\ UNCHANGED <<envVars, callResult, engineVars, pickVars>>)

SpecHistory == InitHistory /\ [][NextHistory]_vars

----------------------------------------------------------------------------
(* SpecPick: showSearchQuickPick, its handlers and its debounce timer *)

DebounceDelay == 300   \* setTimeout(..., 300)

TickMs == 100          \* the clock advances in steps of 100 ms

MaxTime == 700         \* the clock stops here

\* the values of the input box
PickValueSet == {"", " ", "LOGIN", "Deploy"}

\* the histories stored by earlier uses
PickHistorySet == {<<>>, <<"LOGIN">>, <<"Deploy", "LOGIN">>}

\* the label of a history item: the clipboard emoji, two UTF-16 code units
\* written "##" here, a space and the query
historyLabel(query) == "## " \o query

\* String.prototype.substring(start)
substring(text, start) == SubSeq(text, start + 1, Len(text))

\* String.prototype.trim, for texts with blanks as their only white space
trim(text) ==
  LET inner == {i \in 1..Len(text) : SubSeq(text, i, i) # " "}
  IN IF inner = {} THEN ""
     ELSE SubSeq(text, CHOOSE i \in inner : \A j \in inner : i <= j,
                 CHOOSE i \in inner : \A j \in inner : i >= j)

HistoryItem(query) == [isHistory |-> TRUE, label |-> historyLabel(query), entry |-> <<>>]

ResultItem(session, message) ==
  [isHistory |-> FALSE, label |-> "",
   entry |-> <<[session |-> session, message |-> message]>>]

\* the items performSearch puts into the quick pick: for every entry of
\* searchResults, the session object and the message object
resultItems(allSessions, lowerQuery) ==
  LET results == searchResults(allSessions, lowerQuery)
      sessionOf(oid) == CHOOSE session \in {allSessions[k] : k \in 1..Len(allSessions)} :
                          session.oid = oid
  IN [n \in 1..Len(results) |-> ResultItem(sessionOf(results[n].session), results[n].message)]

\* the quick pick once performSearch(query, quickPick) has run
afterPerformSearch(qp, query) ==
  IF isBlank(query) THEN qp
  ELSE [qp EXCEPT !.items = resultItems(getAllSessions, toLowerCase(query))]

\* the scan performSearch(query, quickPick) runs, none for a blank query
scanOf(query, by) ==
  IF isBlank(query) THEN <<>> ELSE <<[query |-> query, by |-> by]>>

\* clearTimeout(searchTimeout) under if (searchTimeout)
clearTimeout(handle, pending) ==
  IF handle = <<>> THEN pending
  ELSE LET hits == {i \in 1..Len(pending) : pending[i] = handle[1]}
       IN IF hits = {} THEN pending
          ELSE Remove(pending, CHOOSE i \in hits : \A j \in hits : i <= j)

\* showSearchQuickPick(): the quick pick is created, filled with the history
\* and shown; one quick pick is opened
ShowSearchQuickPick ==
  /\ quickPick = NoQuickPick
  /\ LET historyItems == [i \in 1..Len(globalState) |-> HistoryItem(globalState[i])]
     IN quickPick' = [shown |-> "shown", value |-> "", items |-> historyItems,
                      historyItems |-> historyItems, pendingChange |-> FALSE]
  /\ searchTimeout' = <<>>
  /\ scan' = <<>>
  /\ UNCHANGED <<timers, time, valueSince, acceptTask>>

\* onDidChangeValue(value): the user has changed the input to value, or the
\* change made by "quickPick.value = query" is reported
onDidChangeValue(value) ==
  LET cleared == clearTimeout(searchTimeout, timers)
      timer == [query |-> value, due |-> time + DebounceDelay]
  IN /\ IF value = ""
          THEN /\ quickPick' = [quickPick EXCEPT !.value = value,
                                                 !.items = quickPick.historyItems,
                                                 !.pendingChange = FALSE]
               /\ timers' = cleared
               /\ UNCHANGED searchTimeout
          ELSE /\ quickPick' = [quickPick EXCEPT !.value = value,
                                                 !.pendingChange = FALSE]
               /\ timers' = Append(cleared, timer)
               /\ searchTimeout' = <<timer>>
     /\ valueSince' = IF value # quickPick.value THEN time ELSE valueSince
     /\ scan' = <<>>
     /\ UNCHANGED <<time, acceptTask>>

DidChangeValue ==
  /\ quickPick.shown = "shown"
  /\ \E value \in PickValueSet :
       /\ IF quickPick.pendingChange THEN value = quickPick.value
                                     ELSE value # quickPick.value
       /\ onDidChangeValue(value)

\* the clock advances
Tick ==
  /\ time < MaxTime
  /\ time' = time + TickMs
  /\ scan' = <<>>
  /\ UNCHANGED <<quickPick, searchTimeout, timers, valueSince, acceptTask>>

\* a timer that is due runs its callback: this.performSearch(value, quickPick)
TimerFires ==
  \E i \in 1..Len(timers) :
    /\ timers[i].due <= time
    /\ timers' = Remove(timers, i)
    /\ performSearch(timers[i].query)
    /\ quickPick' = afterPerformSearch(quickPick, timers[i].query)
    /\ scan' = scanOf(timers[i].query, "timer")
    /\ UNCHANGED <<searchTimeout, time, valueSince, acceptTask>>

\* onDidAccept with a history item selected: the input is set to its query
\* and performSearch runs at once
AcceptHistory ==
  /\ quickPick.shown = "shown"
  /\ \E i \in 1..Len(quickPick.items) :
       LET selection == quickPick.items[i]
           query == substring(selection.label, 3)
           changed == query # quickPick.value
       IN /\ selection.isHistory
          /\ performSearch(query)
          /\ quickPick' = afterPerformSearch(
                 [quickPick EXCEPT !.value = query,
                                   !.pendingChange = changed \/ quickPick.pendingChange],
                 query)
          /\ valueSince' = IF changed THEN time ELSE valueSince
          /\ scan' = scanOf(query, "accept")
  /\ UNCHANGED <<searchTimeout, timers, time, acceptTask>>

\* onDidAccept with a search result selected, up to the await of the
\* openLogDetail command: quickPick.hide()
AcceptEntry ==
  /\ quickPick.shown = "shown"
  /\ acceptTask = <<>>
  /\ \E i \in 1..Len(quickPick.items) :
       LET selection == quickPick.items[i] IN
       /\ ~selection.isHistory
       /\ selection.entry # <<>>
       /\ acceptTask' = <<[pc |-> "openLogDetail", entry |-> selection.entry[1]]>>
  /\ quickPick' = [quickPick EXCEPT !.shown = "hiding"]
  /\ scan' = <<>>
  /\ UNCHANGED <<searchTimeout, timers, time, valueSince>>

\* navigateToEntry after the openLogDetail command: selectMessage, or
\* selectMessageByIndex for a message without uuid
ResumeNavigateToEntry ==
  /\ acceptTask # <<>>
  /\ acceptTask[1].pc = "openLogDetail"
  /\ LET session == acceptTask[1].entry.session
         message == acceptTask[1].entry.message
         found == {k \in 1..Len(session.messages) : session.messages[k].oid = message.oid}
     IN IF session.sessionId = "" \/ (message.uuid = "" /\ found = {})
          THEN UNCHANGED engineVars
          ELSE IF message.uuid = ""
            THEN selectMessageByIndex(session.sessionId,
                                      (CHOOSE k \in found : \A j \in found : k <= j) - 1)
            ELSE selectMessage(session.sessionId, message.uuid)
  /\ acceptTask' = <<[acceptTask[1] EXCEPT !.pc = "addQuery"]>>
  /\ scan' = <<>>
  /\ UNCHANGED <<quickPick, searchTimeout, timers, time, valueSince>>

\* onDidAccept after navigateToEntry: the trimmed input goes to addQuery
ResumeAddToHistory ==
  /\ acceptTask # <<>>
  /\ acceptTask[1].pc = "addQuery"
  /\ addQueryCall = <<>>
  /\ LET query == trim(quickPick.value)
     IN IF query # "" THEN addQuery(query) ELSE UNCHANGED historyVars
  /\ acceptTask' = <<>>
  /\ scan' = <<>>
  /\ UNCHANGED <<quickPick, searchTimeout, timers, time, valueSince>>

\* onDidHide, after quickPick.hide() or when the user dismisses the quick pick
DidHide ==
  /\ quickPick.shown \in {"shown", "hiding"}
  /\ timers' = clearTimeout(searchTimeout, timers)
  /\ quickPick' = [quickPick EXCEPT !.shown = "hidden"]
  /\ scan' = <<>>
  /\ UNCHANGED <<searchTimeout, time, valueSince, acceptTask>>

\* the directory of the quick pick specification
PickDir == <<File(26, TRUE, <<EntryE>>), File(49, TRUE, <<EntryA, EntryC>>)>>

\* the provider once initialize() has loaded the sessions of the directory
LoadedEngine ==
  /\ workspaceHasProject = TRUE
  /\ configMaxFiles = MaxFiles
  /\ sessions = parseLogFiles(dirStatus, dir, MaxFiles, NoFilter, 0, now)
  /\ logFileParser = <<[maxFiles |-> MaxFiles]>>
  /\ dateFilter = NoFilter
  /\ initialized = TRUE
  /\ initializing = FALSE
  /\ initializationError = ""
  /\ treeView = TRUE
  /\ sessionItemCache = EmptyMap
  /\ messageItemCache = EmptyMap
  /\ tasks = <<>>
  /\ opCount = 1
  /\ nextGen = 1
  /\ made = EmptyMap
  /\ issued = {}
  /\ barrier = EmptyMap

InitPick ==
  /\ dir = PickDir
  /\ dirStatus = "ok"
  /\ now \in ClockSet
  /\ callResult = NoCall
  /\ LoadedEngine
  /\ globalState \in PickHistorySet
  /\ addQueryCall = <<>>
  /\ addQueryCount = 0
  /\ quickPick = NoQuickPick
  /\ searchTimeout = <<>>
  /\ timers = <<>>
  /\ time = 0
  /\ valueSince = 0
  /\ scan = <<>>
  /\ acceptTask = <<>>

NextPick ==
  \/ (ShowSearchQuickPick /\ UNCHANGED <<envVars, callResult, engineVars, historyVars>>)
  \/ (DidChangeValue /\ UNCHANGED <<envVars, callResult, engineVars, historyVars>>)
  \/ (Tick /\ UNCHANGED <<envVars, callResult, engineVars, historyVars>>)
  \/ (TimerFires /\ UNCHANGED <<envVars, historyVars>>)
  \/ (AcceptHistory /\ UNCHANGED <<envVars, historyVars>>)
  \/ (AcceptEntry /\ UNCHANGED <<envVars, callResult, engineVars, historyVars>>)
  \/ (ResumeNavigateToEntry /\ UNCHANGED <<envVars, callResult, historyVars>>)
  \/ (ResumeAddToHistory /\ UNCHANGED <<envVars, callResult, engineVars>>)
  \/ (ResumeAddQuery /\ UNCHANGED <<envVars, callResult, engineVars, pickVars>>)
  \/ (DidHide /\ UNCHANGED <<envVars, callResult, engineVars, historyVars>>)

SpecPick == InitPick /\ [][NextPick]_vars

----------------------------------------------------------------------------
(* Claims about the parser *)

\* the sessions parseLogFileToSession builds from the files the call selects:
\* the maxFiles newest files, less those a date filter rejects; <<>> stands
\* for a file that gives no session
selectedSessions(maxFiles, filter) ==
  LET logFiles == getLogFiles(dirStatus, dir, maxFiles)
      parsed(i) == parseLogFileToSession(dir[logFiles[i]], 0, logFiles[i], now)
  IN [i \in 1..Len(logFiles) |->
        IF /\ parsed(i) # <<>>
           /\ filter # NoFilter
           /\ ~sessionMatchesDateFilter(parsed(i)[1], filter[1], now)
          THEN <<>>
          ELSE parsed(i)]

\* the sum of one quantity over the selected sessions of one session id
SumOver(ps, id, quantity) ==
  LET val(session) ==
        CASE quantity = "messages" -> Len(session.messages)
          [] quantity = "totalTokens" -> session.totalTokens
          [] quantity = "totalCost" -> session.totalCost
      RECURSIVE Upto(_)
      Upto(i) ==
        IF i = 0 THEN 0
        ELSE Upto(i - 1) +
             (IF ps[i] # <<>> /\ ps[i][1].sessionId = id THEN val(ps[i][1]) ELSE 0)
  IN Upto(Len(ps))

\* C1: a call of parseLogFiles returns exactly one session per session id
\* of the selected files; its message count, its
\* totalTokens and its totalCost are the sums over the files of that id, its
\* startTime is the earliest of their start times and its endTime the latest
\* of their end times.
C1_MergeBySessionId ==
  callResult.op = "parseLogFiles" =>
    LET ps == selectedSessions(callResult.maxFiles, callResult.dateFilter)
        out == callResult.value
        Of(id) == {i \in 1..Len(ps) : ps[i] # <<>> /\ ps[i][1].sessionId = id}
        Ids == {ps[i][1].sessionId : i \in {j \in 1..Len(ps) : ps[j] # <<>>}}
    IN /\ {out[k].sessionId : k \in 1..Len(out)} = Ids
       /\ \A id \in Ids : Cardinality({k \in 1..Len(out) : out[k].sessionId = id}) = 1
       /\ \A k \in 1..Len(out) :
            LET id == out[k].sessionId IN
            /\ Len(out[k].messages) = SumOver(ps, id, "messages")
            /\ out[k].totalTokens = SumOver(ps, id, "totalTokens")
            /\ out[k].totalCost = SumOver(ps, id, "totalCost")
            /\ \A i \in Of(id) : /\ out[k].startTime <= ps[i][1].startTime
                                 /\ out[k].endTime >= ps[i][1].endTime
            /\ \E i \in Of(id) : out[k].startTime = ps[i][1].startTime
            /\ \E i \in Of(id) : out[k].endTime = ps[i][1].endTime

\* C1 witness: two selected files of one session id with different time
\* ranges and a nonzero cost were merged into one session.
C1_Witness ==
  /\ callResult.op = "parseLogFiles"
  /\ LET ps == selectedSessions(callResult.maxFiles, callResult.dateFilter) IN
     /\ Len(ps) = 2 /\ ps[1] # <<>> /\ ps[2] # <<>>
     /\ ps[1][1].sessionId = ps[2][1].sessionId
     /\ ps[2][1].startTime < ps[1][1].startTime
     /\ ps[1][1].endTime > ps[2][1].endTime
     /\ ps[1][1].totalCost > 0
     /\ Len(callResult.value) = 1
     /\ Len(callResult.value[1].messages) >= 3

\* position of the entry object oid in a message sequence
indexOf(messages, oid) ==
  CHOOSE i \in 1..Len(messages) : messages[i].oid = oid

\* C3: in every session parseLogFiles returns, two entries that both carry a
\* timestamp are in ascending timestamp order, entries of equal timestamp
\* keep the order they had before the sort, and so do the entries without a
\* timestamp.
C3_MessagesChronological ==
  callResult.op = "parseLogFiles" =>
    LET out == callResult.value
        logFiles == getLogFiles(dirStatus, dir, callResult.maxFiles)
        merged == mergedUpTo(dir, logFiles, Len(logFiles),
                             callResult.dateFilter, 0, now)
        before(id) == (CHOOSE k \in 1..Len(merged) : merged[k].sessionId = id)
    IN \A k \in 1..Len(out) :
         LET m == out[k].messages
             pre == merged[before(out[k].sessionId)].messages
         IN \A i, j \in 1..Len(m) :
              i < j =>
                /\ (m[i].timestamp > 0 /\ m[j].timestamp > 0)
                      => m[i].timestamp <= m[j].timestamp
                /\ (m[i].timestamp = m[j].timestamp)
                      => indexOf(pre, m[i].oid) < indexOf(pre, m[j].oid)

\* C4: the session built from a readable file holds exactly one entry per
\* non-blank line that parses to an object, in line order, whatever malformed
\* lines stand between them; there is no session only when no line parses.
\* (A line holding the JSON literal null may count as an entry or as a
\* malformed line: the object lines must come through either way.)
C4_OneEntryPerParsedLine ==
  (callResult.op = "parseLogFileToSession" /\ dir[1].readable) =>
    LET parsed == SelectSeq(dir[1].lines, LAMBDA l : l.kind \in {"obj", "null"})
        objects == SelectSeq(dir[1].lines, LAMBDA l : l.kind = "obj")
        value == callResult.value
    IN /\ Len(parsed) = 0 => value = <<>>
       /\ Len(objects) > 0 =>
            /\ value # <<>>
            /\ Len(value[1].messages) \in {Len(objects), Len(parsed)}
            /\ LET kept == SelectSeq(value[1].messages, LAMBDA m : m.kind = "obj")
               IN /\ Len(kept) = Len(objects)
                  /\ \A i \in 1..Len(objects) :
                       [kept[i] EXCEPT !.oid = <<>>, !.cost = NoCost] = objects[i]

----------------------------------------------------------------------------
(* Claims about the session collection and the load lifecycle *)

\* the collection is empty or the value one call of parseLogFiles returned
publishedWhole ==
  \/ sessions = <<>>
  \/ \E gen \in 0..(nextGen - 1), maxFiles \in 1..MaxFiles,
        filter \in {NoFilter} \cup EngineFilterSet :
        sessions = parseLogFiles(dirStatus, dir, maxFiles, filter, gen, now)

\* C2: in every state the session collection is sorted by startTime
\* descending, holds no session id twice, and is either empty or the whole
\* result of one parseLogFiles call (messages and sessions sorted), so no
\* reader sees a partially merged or partially sorted collection.
C2_SessionsSortedWhenRead ==
  /\ \A k \in 1..(Len(sessions) - 1) :
       sessions[k].startTime >= sessions[k + 1].startTime
  /\ \A j, k \in 1..Len(sessions) :
       j # k => sessions[j].sessionId # sessions[k].sessionId
  /\ publishedWhole

\* C2 witness: the engine is Initialized with two sessions of different
\* start times that the Map of parseLogFiles held in the opposite order.
C2_Witness ==
  /\ initialized /\ ~initializing /\ initializationError = ""
  /\ Len(sessions) = 2
  /\ sessions[1].startTime > sessions[2].startTime
  /\ LET logFiles == getLogFiles(dirStatus, dir, configMaxFiles)
         sessionMap == mergedUpTo(dir, logFiles, Len(logFiles), NoFilter, 0, now)
     IN /\ Len(sessionMap) = 2
        /\ sessionMap[1].sessionId = sessions[2].sessionId

\* C5: at most one call of initialize() is in flight at any time.
C5_SingleLoadInFlight == Cardinality(LoadsInFlight) <= 1

\* the state getChildren() reports at the root
EngineState ==
  IF initializing THEN "Initializing"
  ELSE IF initializationError # "" THEN "Error"
  ELSE IF initialized THEN "Initialized"
  ELSE "Uninitialized"

\* C6: while a load is running the engine is Initializing (never Initialized,
\* Error or Uninitialized), and it is not Initializing once no load runs.
C6_Lifecycle ==
  /\ LoadsInFlight # {} => EngineState = "Initializing"
  /\ LoadsInFlight = {} => EngineState # "Initializing"

\* C7: a filter request made while a load is in flight is ignored: the step
\* starts no task, and leaves the filter and the session collection alone.
C7_FilterIgnoredDuringLoad ==
  [][(LoadsInFlight # {} /\ (ApplyDateFilter \/ ClearFilter))
       => UNCHANGED <<tasks, sessions, dateFilter>>]_vars

----------------------------------------------------------------------------
(* Claims about the tree item caches *)

\* the handle a lookup of the session with this id returns (getParent,
\* expandSession, selectMessage, selectMessageByIndex): <<>> or <<item>>
sessionHandle(sessionId) ==
  LET session == findSession(sessionId)
  IN IF session = <<>> THEN <<>>
     ELSE <<sessionItemFor(session[1], made).item>>

\* the handle selectMessageByIndex(sessionId, k - 1) returns for a message
messageHandle(sessionId, k) ==
  LET session == findSession(sessionId)[1]
  IN messageItemFor(sessionId, session.messages[k], k - 1, made).item

\* the handles getChildren() returns at the root of an Initialized engine
rootHandles ==
  IF EngineState = "Initialized" THEN rootSessionItems.items ELSE <<>>

Range(seq) == {seq[k] : k \in 1..Len(seq)}

\* every handle some lookup returns in the current state
lookupHandles ==
  Range(rootHandles)
  \cup UNION {Range(sessionMessageItems(e).items) :
                e \in {x \in issued : x.kind = "session"}}
  \cup UNION {Range(sessionHandle(id)) : id \in SessionIdSet}
  \cup UNION {{messageHandle(id, k) : k \in 1..Len(findSession(id)[1].messages)} :
                id \in {x \in SessionIdSet : findSession(x) # <<>>}}

\* C8: a lookup that directly follows a lookup with the same argument
\* (getChildren at the root, getChildren of a session item) returns the
\* identical handles.
C8_SameKeySameHandle ==
  [][/\ (GetChildrenRoot /\ EngineState = "Initialized")
          => (rootSessionItems.items)' = rootSessionItems.items
     /\ \A e \in issued :
          (e.kind = "session" /\ getChildren(e))
            => (sessionMessageItems(e).items)' = sessionMessageItems(e).items]_vars

\* C9: every handle a cache holds, and every handle a lookup returns, was
\* constructed after the start of every refresh(), applyDateFilter() and
\* clearFilter() that has completed, so it is none of the handles returned
\* before that operation.
C9_NewHandlesAfterInvalidation ==
  /\ \A k \in DOMAIN sessionItemCache :
       sessionItemCache[k].id[2] > Count(barrier, sessionItemCache[k].id[1])
  /\ \A k \in DOMAIN messageItemCache :
       messageItemCache[k].id[2] > Count(barrier, messageItemCache[k].id[1])
  /\ \A h \in lookupHandles : h.id[2] > Count(barrier, h.id[1])

\* C9 witness: a refresh or filter operation has completed, a handle of some
\* key was returned before it started, and the lookup of that key now
\* returns another handle, which was handed out as well.
C9_Witness ==
  \E h \in lookupHandles \cap issued, old \in issued :
    /\ old.id[1] = h.id[1]
    /\ old.id[2] <= Count(barrier, old.id[1])
    /\ h.id[2] > Count(barrier, h.id[1])
    /\ h.kind = "message" => h.sessionId \in DOMAIN sessionItemCache

\* C10: the handle a lookup by key returns refers to the object the current
\* collection holds under that key: the root items and the session handles
\* to the Session object, a message handle to the Entry object at its index.
C10_HandlesReferToCurrentObjects ==
  /\ \A k \in 1..Len(rootHandles) : rootHandles[k].session[1].oid = sessions[k].oid
  /\ \A id \in SessionIdSet :
       findSession(id) # <<>> =>
         LET session == findSession(id)[1] IN
         /\ sessionHandle(id)[1].session[1].oid = session.oid
         /\ \A k \in 1..Len(session.messages) :
              /\ messageHandle(id, k).message[1].oid = session.messages[k].oid
              /\ messageHandle(id, k).messageIndex = k - 1

RefreshCalled ==
  \/ RefreshCommand
  \/ ConfigurationChanged
  \/ \E i \in 1..Len(tasks) : ResumeWorkspaceFoldersChanged(i)

\* C12: a load whose project-path resolution yields no path ends in the Error
\* state with a non-empty message, and an engine in the Error state stays in
\* it under every step (root access, filter-apply, filter-clear, reveal, the
\* continuation of any suspended call) except a call of refresh().
C12_ErrorUntilRefresh ==
  [][/\ \A i \in 1..Len(tasks) :
          ResumeDetectCurrentProject(i) /\ ~tasks[i].projectPath
            => EngineState' = "Error" /\ initializationError' # ""
     /\ EngineState = "Error" /\ EngineState' # "Error" => RefreshCalled]_vars

\* C13: a load during which the aggregation threw (listing the directory or
\* stat-ing a file failed) ends in the Error state with the exception's
\* message, and not in Initialized with an empty session collection.
C13_AggregationFailureIsError ==
  [][\A i \in 1..Len(tasks) :
       ResumeInitialize(i) /\ tasks[i].error # ""
         => /\ EngineState' = "Error"
            /\ initializationError' = tasks[i].error]_vars

\* C14: every session parseLogFiles returns has startTime <= endTime, and
\* when some of its entries carry a valid timestamp, startTime is the least
\* and endTime the greatest of them.
C14_BoundsAreMinAndMax ==
  callResult.op = "parseLogFiles" =>
    \A k \in 1..Len(callResult.value) :
      LET session == callResult.value[k]
          valid == {session.messages[j].timestamp : j \in 1..Len(session.messages)}
                     \ {NoTs, BadTs}
      IN /\ session.startTime <= session.endTime
         /\ valid # {} =>
              /\ session.startTime \in valid
              /\ session.endTime \in valid
              /\ \A t \in valid : session.startTime <= t /\ t <= session.endTime

\* C15: a readable file of well-formed entries whose first (last)
\* timestamped entry carries an unparseable timestamp still produces a
\* session, and its startTime (endTime) is the file's modification time.
C15_BadTimestampFallsBackToMtime ==
  (/\ callResult.op = "parseLogFileToSession"
   /\ dir[1].readable
   /\ \A i \in 1..Len(dir[1].lines) : dir[1].lines[i].kind # "null") =>
    LET stamped == SelectSeq(dir[1].lines,
                             LAMBDA l : l.kind = "obj" /\ l.timestamp # NoTs)
        n == Len(stamped)
        value == callResult.value
    IN /\ (n > 0 /\ stamped[1].timestamp = BadTs) =>
            value # <<>> /\ value[1].startTime = dir[1].mtime
       /\ (n > 0 /\ stamped[n].timestamp = BadTs) =>
            value # <<>> /\ value[1].endTime = dir[1].mtime

\* C16: under the preset today a selected file's session is retained iff
\* midnight today <= startTime < midnight tomorrow, and under the preset
\* yesterday iff midnight yesterday <= startTime < midnight today.
C16_PresetsAreHalfOpenDays ==
  (/\ callResult.op = "parseLogFiles"
   /\ callResult.dateFilter # NoFilter
   /\ callResult.dateFilter[1].preset \in {"today", "yesterday"}) =>
    LET ps == selectedSessions(callResult.maxFiles, NoFilter)
        out == callResult.value
        lower == IF callResult.dateFilter[1].preset = "today"
                   THEN midnight(now) ELSE midnight(now) - DAY
        retained(session) ==
          \E k \in 1..Len(out) : \E j \in 1..Len(out[k].messages) :
            /\ out[k].messages[j].oid[1] = session.oid[1]
            /\ out[k].messages[j].oid[2] = session.oid[2]
    IN \A i \in 1..Len(ps) :
         ps[i] # <<>> =>
           (retained(ps[i][1]) <=>
              (lower <= ps[i][1].startTime /\ ps[i][1].startTime < lower + DAY))

\* C17: a call of parseLogFiles parses at most maxFiles files, each once; no
\* file it leaves unparsed has a later modification time than a parsed one;
\* every entry it returns comes from a parsed file and, without a date
\* filter, every parsed file that gives a session is in the result; for a
\* directory that does not exist the result is empty.
C17_NewestMaxFilesAreParsed ==
  callResult.op = "parseLogFiles" =>
    LET logFiles == getLogFiles(dirStatus, dir, callResult.maxFiles)
        parsed == {logFiles[i] : i \in 1..Len(logFiles)}
        out == callResult.value
        sources == UNION {{out[k].messages[j].oid[2] :
                             j \in 1..Len(out[k].messages)} : k \in 1..Len(out)}
    IN /\ Len(logFiles) <= callResult.maxFiles
       /\ Cardinality(parsed) = Len(logFiles)
       /\ parsed \subseteq 1..Len(dir)
       /\ Len(dir) >= callResult.maxFiles => Len(logFiles) = callResult.maxFiles
       /\ \A f \in (1..Len(dir)) \ parsed :
            \A g \in parsed : dir[f].mtime <= dir[g].mtime
       /\ sources \subseteq parsed
       /\ callResult.dateFilter = NoFilter =>
            sources = {f \in parsed :
                         parseLogFileToSession(dir[f], 0, f, now) # <<>>}
       /\ dirStatus = "ENOENT" => out = <<>>

\* a call with maxFiles 1 on a directory of two files parsed the newer one,
\* which readdir lists last, and returned its session
C17_Witness ==
  /\ callResult.op = "parseLogFiles"
  /\ callResult.maxFiles = 1
  /\ Len(dir) = 2
  /\ dir[1].mtime < dir[2].mtime
  /\ parseLogFileToSession(dir[1], 0, 1, now) # <<>>
  /\ Len(callResult.value) = 1
  /\ \A j \in 1..Len(callResult.value[1].messages) :
        callResult.value[1].messages[j].oid[2] = 2

\* C18: every session a call of parseLogFiles returns has at least one
\* message; a parsed file that cannot be read or that yields no entry
\* contributes nothing, the call still returns, and without a date filter
\* every other parsed file contributes all its entries.
C18_NoEmptySessionAndFailuresAreLocal ==
  callResult.op = "parseLogFiles" =>
    LET logFiles == getLogFiles(dirStatus, dir, callResult.maxFiles)
        parsed == {logFiles[i] : i \in 1..Len(logFiles)}
        out == callResult.value
        entries(f) == {i \in 1..Len(dir[f].lines) :
                         dir[f].lines[i].kind \notin {"blank", "bad"}}
        yields(f) == dir[f].readable /\ entries(f) # {}
        from(f) == {<<k, j>> \in (1..Len(out)) \X (1..MaxFiles * MaxLines) :
                      /\ j <= Len(out[k].messages)
                      /\ out[k].messages[j].oid[2] = f}
    IN /\ \A k \in 1..Len(out) : Len(out[k].messages) >= 1
       /\ \A f \in parsed : ~yields(f) => from(f) = {}
       /\ callResult.dateFilter = NoFilter =>
            \A f \in parsed :
              yields(f) => Cardinality(from(f)) = Cardinality(entries(f))

\* the newest of two parsed files cannot be read and the call returned the
\* session of the other one
C18_Witness ==
  /\ callResult.op = "parseLogFiles"
  /\ callResult.maxFiles = 2
  /\ Len(dir) = 2
  /\ dir[1].mtime < dir[2].mtime
  /\ ~dir[2].readable
  /\ dir[1].readable /\ Len(dir[1].lines) = 2
  /\ Len(callResult.value) = 1
  /\ Len(callResult.value[1].messages) = 2

\* C19: every entry a call of parseLogFiles returns lies in the session whose
\* id is the first non-empty sessionId among the entries of the entry's file
\* in line order, or "unknown" when the file has none; at most one returned
\* session has the id "unknown".
C19_SessionIdIsFirstNonEmpty ==
  callResult.op = "parseLogFiles" =>
    LET out == callResult.value
        IsIdOf(id, f) ==
          LET lines == SelectSeq(dir[f].lines, LAMBDA l : l.kind = "obj")
          IN \/ \E i \in 1..Len(lines) :
                  /\ lines[i].sessionId # ""
                  /\ lines[i].sessionId = id
                  /\ \A j \in 1..(i - 1) : lines[j].sessionId = ""
             \/ /\ \A i \in 1..Len(lines) : lines[i].sessionId = ""
                /\ id = "unknown"
    IN /\ \A k \in 1..Len(out) : \A j \in 1..Len(out[k].messages) :
            IsIdOf(out[k].sessionId, out[k].messages[j].oid[2])
       /\ Cardinality({k \in 1..Len(out) : out[k].sessionId = "unknown"}) <= 1

\* two files without any session id were parsed and their entries are in one
\* session with the id "unknown"
C19_Witness ==
  /\ callResult.op = "parseLogFiles"
  /\ Len(callResult.value) = 1
  /\ callResult.value[1].sessionId = "unknown"
  /\ {callResult.value[1].messages[j].oid[2] :
        j \in 1..Len(callResult.value[1].messages)} = {1, 2}

\* C20: for every session a call of parseLogFiles returns, totalTokens is
\* the sum of input_tokens + output_tokens over its entries with a usage,
\* totalCost is the sum of calculateCost's total over exactly its entries
\* with a usage whose input or output token count is nonzero, each of those
\* entries holds its own cost in usage.cost, and no other entry holds one.
C20_TotalsAreSumsOverEntries ==
  callResult.op = "parseLogFiles" =>
    \A k \in 1..Len(callResult.value) :
      LET session == callResult.value[k]
          msgs == session.messages
          costs(msg) == /\ msg.usage # NoUsage
                        /\ \/ msg.usage[1].input_tokens # 0
                           \/ msg.usage[1].output_tokens # 0
          costOf(msg) ==
            calculateCost(msg.usage[1],
                          IF msg.model # "" THEN msg.model ELSE "unknown",
                          msg.usage[1].service_tier).totalCost
          RECURSIVE Tokens(_), Cost(_)
          Tokens(j) ==
            IF j = 0 THEN 0
            ELSE Tokens(j - 1) +
                 (IF msgs[j].usage # NoUsage
                    THEN msgs[j].usage[1].input_tokens + msgs[j].usage[1].output_tokens
                    ELSE 0)
          Cost(j) ==
            IF j = 0 THEN 0
            ELSE Cost(j - 1) + (IF costs(msgs[j]) THEN costOf(msgs[j]) ELSE 0)
      IN /\ session.totalTokens = Tokens(Len(msgs))
         /\ session.totalCost = Cost(Len(msgs))
         /\ \A j \in 1..Len(msgs) :
              msgs[j].cost = IF costs(msgs[j]) THEN costOf(msgs[j]) ELSE NoCost

\* a session merged from two files holds two costed entries and an entry
\* whose usage has cache tokens only
C20_Witness ==
  /\ callResult.op = "parseLogFiles"
  /\ \E k \in 1..Len(callResult.value) :
       LET msgs == callResult.value[k].messages IN
       /\ {msgs[j].oid[2] : j \in 1..Len(msgs)} = {1, 2}
       /\ Cardinality({j \in 1..Len(msgs) : msgs[j].cost > 0}) = 2
       /\ \E j \in 1..Len(msgs) :
            /\ msgs[j].usage # NoUsage
            /\ msgs[j].usage[1].input_tokens = 0
            /\ msgs[j].usage[1].output_tokens = 0
            /\ msgs[j].usage[1].cache_creation_input_tokens > 0
       /\ callResult.value[k].totalCost > 0
       /\ callResult.value[k].totalTokens > 0

----------------------------------------------------------------------------
(* Claims about the cost model *)

\* C21: calculateCost returns, for each of the four token counts, the count
\* times the model's price per million times the tier multiplier (one half
\* for batch in any letter case, one otherwise), over 1,000,000; totalCost is
\* the sum of the four sub-costs and every sub-cost is >= 0.  Amounts are in
\* units of 1/(2 * 10^8) dollar, prices in cents, the multiplier doubled.
C21_CostIsReferenceFormula ==
  callResult.op = "calculateCost" =>
    LET usage == callResult.usage
        value == callResult.value
        twice == IF callResult.serviceTier \in {"batch", "Batch", "BATCH"}
                   THEN 1 ELSE 2
        known == callResult.model \in DOMAIN MODEL_PRICING
        pricing == MODEL_PRICING[callResult.model]
    IN /\ known =>
            /\ value.inputCost = usage.input_tokens * pricing.inputPrice * twice
            /\ value.outputCost = usage.output_tokens * pricing.outputPrice * twice
            /\ value.cacheCreationCost =
                 usage.cache_creation_input_tokens * pricing.cacheCreationPrice * twice
            /\ value.cacheReadCost =
                 usage.cache_read_input_tokens * pricing.cacheReadPrice * twice
       /\ value.totalCost = value.inputCost + value.outputCost
                              + value.cacheCreationCost + value.cacheReadCost
       /\ value.inputCost >= 0 /\ value.outputCost >= 0
       /\ value.cacheCreationCost >= 0 /\ value.cacheReadCost >= 0
       /\ value.model = callResult.model
       /\ value.serviceTier = callResult.serviceTier

\* C22: for a model name that is not a key of the pricing table calculateCost
\* returns the five amounts it returns for claude-3-5-sonnet-20241022 with
\* the same usage and tier.
C22_UnknownModelUsesDefaultPricing ==
  (callResult.op = "calculateCost"
   /\ callResult.model \notin DOMAIN MODEL_PRICING) =>
    LET value == callResult.value
        default == calculateCost(callResult.usage, "claude-3-5-sonnet-20241022",
                                 callResult.serviceTier)
    IN /\ value.inputCost = default.inputCost
       /\ value.outputCost = default.outputCost
       /\ value.cacheCreationCost = default.cacheCreationCost
       /\ value.cacheReadCost = default.cacheReadCost
       /\ value.totalCost = default.totalCost

----------------------------------------------------------------------------
(* Claims about summaries, search and the frame of the operations *)

\* C23: the summary of every session parseLogFiles returns is derived from
\* the session's entries: when a user entry of the session has a text (its
\* plain content or the first text item of its structured content), the
\* summary is such a text, cut to 100 characters plus "..." when longer;
\* else, when a summary entry has a summary text, it is such a text; else
\* it is the counts of the session's user, assistant and summary entries
\* with the day of a timestamped entry, or "Unknown date" without one.
C23_SummaryDerivedFromSessionEntries ==
  callResult.op = "parseLogFiles" =>
    \A k \in 1..Len(callResult.value) :
      LET session == callResult.value[k]
          msgs == {session.messages[j] : j \in 1..Len(session.messages)}
          count(type) ==
            Cardinality({j \in 1..Len(session.messages) :
                           session.messages[j].type = type})
          text(msg) ==
            IF ~msg.hasMessage THEN ""
            ELSE IF msg.content.kind = "string" THEN msg.content.text
            ELSE LET items == msg.content.items
                     first == {i \in 1..Len(items) :
                                 /\ items[i].type = "text"
                                 /\ \A h \in 1..(i - 1) : items[h].type # "text"}
                 IN IF first = {} THEN "" ELSE items[CHOOSE i \in first : TRUE].text
          cut(t) == IF Len(t) > 100 THEN SubSeq(t, 1, 100) \o "..." ELSE t
          userTexts == {cut(text(msg)) : msg \in {m \in msgs : m.type = "user"}}
                         \ {""}
          summaryTexts == {msg.summary : msg \in {m \in msgs : m.type = "summary"}}
                            \ {""}
          days == {toLocaleDateString(msg.timestamp) :
                     msg \in {m \in msgs : m.timestamp # NoTs}}
          counts(day) ==
            ToString(count("user")) \o " user, " \o ToString(count("assistant"))
            \o " assistant"
            \o (IF count("summary") > 0
                  THEN ", " \o ToString(count("summary")) \o " summary" ELSE "")
            \o " messages - " \o day
      IN IF userTexts # {} THEN session.summary \in userTexts
         ELSE IF summaryTexts # {} THEN session.summary \in summaryTexts
         ELSE session.summary \in
                {counts(day) : day \in IF days = {} THEN {"Unknown date"} ELSE days}

C26_HistoryIsBoundedDistinctAndRecentFirst ==
  /\ [](/\ Len(globalState) <= 10
        /\ \A i, j \in 1..Len(globalState) :
             globalState[i] = globalState[j] => i = j)
  /\ [][(addQueryCall # <<>> /\ addQueryCall' = <<>>) =>
          LET q == addQueryCall[1].query
              others == SelectSeq(globalState, LAMBDA x : x # q)
          IN /\ globalState'[1] = q
             /\ Len(globalState') = IF Len(others) + 1 > 10 THEN 10
                                    ELSE Len(others) + 1
             /\ \A i \in 2..Len(globalState') : globalState'[i] = others[i - 1]]_vars
  /\ [][(addQueryCount' = addQueryCount + 1 /\ addQueryCall' = <<>>) =>
          globalState' = globalState]_vars

\* eleven queries were added and then the oldest remaining one again: the
\* first query was dropped and the re-submitted one moved to the front
C26_Witness ==
  /\ addQueryCount = 12
  /\ addQueryCall = <<>>
  /\ Len(globalState) = 10
  /\ globalState[1] = "q02"
  /\ globalState[2] = "q11"
  /\ \A i \in 1..10 : globalState[i] # "q01"


\* C25: a scan for a query runs only while the quick pick is shown and only
\* if the input has been equal to that query, unchanged, for 300 ms; at most
\* one scan is pending; an empty input has no pending scan and shows the
\* history; this for every sequence of input changes, history selections and
\* accepts.
C25_ScanOnlyAfterStableInput ==
  /\ scan # <<>> =>
       /\ quickPick.shown = "shown"
       /\ quickPick.value = scan[1].query
       /\ time - valueSince >= 300
  /\ Len(timers) <= 1
  /\ (quickPick.shown = "shown" /\ quickPick.value = "") =>
       /\ timers = <<>>
       /\ quickPick.items = quickPick.historyItems
  /\ quickPick.shown = "hidden" => timers = <<>>


\* the steps of the search and reveal operations
SearchOrRevealStep ==
  PerformSearch \/ SelectMessage \/ SelectMessageByIndex \/ ExpandSession \/ GetParent

\* C27 as stated: performSearch, selectMessage, selectMessageByIndex,
\* expandSession, revealMessage and getParent leave the session collection,
\* the two item caches and the lifecycle state unchanged.
C27_SearchAndRevealChangeNothing ==
  [][SearchOrRevealStep =>
       UNCHANGED <<sessions, sessionItemCache, messageItemCache, initialized,
                   initializing, initializationError>>]_vars

\* C27: the search and reveal operations leave the session collection
\* unchanged, keep every entry of the two item caches as it is and add
\* entries only for keys that are not cached, and leave the lifecycle state
\* unchanged except that performSearch on an Uninitialized engine starts the
\* lazy initialization: a step that does otherwise is not one of theirs.
C27_SearchAndRevealOnlyAddCacheEntries ==
  [][\/ /\ sessions' = sessions
        /\ \A key \in DOMAIN sessionItemCache :
             /\ key \in DOMAIN sessionItemCache'
             /\ sessionItemCache'[key] = sessionItemCache[key]
        /\ \A key \in DOMAIN messageItemCache :
             /\ key \in DOMAIN messageItemCache'
             /\ messageItemCache'[key] = messageItemCache[key]
        /\ \/ UNCHANGED <<initialized, initializing, initializationError>>
           \/ /\ EngineState = "Uninitialized"
              /\ EngineState' = "Initializing"
              /\ callResult'.op = "performSearch"
     \/ ~SearchOrRevealStep]_vars

\* getParent has answered for a message item and the parent it returned is
\* in the session item cache
C27_Witness ==
  /\ callResult.op = "getParent"
  /\ callResult.value # <<>>
  /\ callResult.element.sessionId \in DOMAIN sessionItemCache
  /\ sessionItemCache[callResult.element.sessionId] = callResult.value[1]


\* C28: with a date filter, parseLogFiles returns the sessions of the
\* unfiltered result whose start time lies in the range, and only those, each
\* with the messages, totals and time bounds it has in the unfiltered result,
\* also for a session spread over several files.
C28_FilteredIsRestrictionOfUnfiltered ==
  (callResult.op = "parseLogFiles" /\ callResult.dateFilter # NoFilter) =>
    LET all == parseLogFiles(dirStatus, dir, callResult.maxFiles, NoFilter, 0, now)
        out == callResult.value
        inRange(session) ==
          sessionMatchesDateFilter(session, callResult.dateFilter[1], now)
    IN /\ \A i \in 1..Len(all) :
            inRange(all[i]) => \E k \in 1..Len(out) : out[k].sessionId = all[i].sessionId
       /\ \A k \in 1..Len(out) :
            \E i \in 1..Len(all) :
              /\ all[i].sessionId = out[k].sessionId
              /\ inRange(all[i])
              /\ out[k].messages = all[i].messages
              /\ out[k].totalTokens = all[i].totalTokens
              /\ out[k].totalCost = all[i].totalCost
              /\ out[k].startTime = all[i].startTime
              /\ out[k].endTime = all[i].endTime


\* C29: refresh() leaves the date filter unchanged (only applyDateFilter and
\* clearFilter change it); the load of a refresh calls the parser with the
\* filter in force at that moment, and the sessions it stores are, with no
\* filter, all sessions of the parsed files and, with a filter, sessions that
\* match it, among them the session of every parsed file that matches it.
C29_RefreshKeepsDateFilter ==
  /\ [][dateFilter' = dateFilter \/ ApplyDateFilter \/ ClearFilter]_vars
  /\ [][(/\ nextGen' = nextGen + 1
         /\ tasks'[Len(tasks')].kind = "refresh") =>
          /\ tasks'[Len(tasks')].dateFilter = dateFilter
          /\ dateFilter' = dateFilter]_vars
  /\ [][\A i \in 1..Len(tasks) :
          (/\ tasks[i].kind = "refresh"
           /\ tasks[i].pc = "parseLogFiles"
           /\ tasks' = [tasks EXCEPT ![i].pc = "initialize"]
           /\ tasks[i].error = "") =>
            LET t == tasks[i]
                all == sortSessions(mergedUpTo(dir, t.logFiles, Len(t.logFiles),
                                               NoFilter, t.gen, now))
                ofFile(f) == parseLogFileToSession(dir[f], t.gen, f, now)
            IN IF t.dateFilter = NoFilter
                 THEN sessions' = all
                 ELSE /\ \A k \in 1..Len(sessions') :
                           sessionMatchesDateFilter(sessions'[k], t.dateFilter[1], now)
                      /\ \A n \in 1..Len(t.logFiles) :
                           LET session == ofFile(t.logFiles[n]) IN
                           (session # <<>> /\
                            sessionMatchesDateFilter(session[1], t.dateFilter[1], now)) =>
                             \E k \in 1..Len(sessions') :
                               sessions'[k].sessionId = session[1].sessionId]_vars

\* a refresh called while the filter {from: hour 47} was in force has stored
\* its sessions: one of the two sessions of the directory
C29_Witness ==
  /\ dateFilter # NoFilter
  /\ Len(sessions) = 1
  /\ \E i \in 1..Len(tasks) :
       /\ tasks[i].kind = "refresh"
       /\ tasks[i].pc = "initialize"
       /\ tasks[i].dateFilter = dateFilter
       /\ Len(tasks[i].logFiles) = 2


\* C30: whenever the engine is in the Error state the session collection is
\* empty, also when the Error state is reached by a refresh that follows a
\* successful load.
C30_ErrorStateHasNoSessions ==
  EngineState = "Error" => sessions = <<>>

====
